---- MODULE Spec2Model ----
(***************************************************************************)
(* NYC taxi trips: the PySpark cleaning job (data_validation_cleaning),    *)
(* the functions of utils/common_functions it is made of, the aggregation  *)
(* jobs that read the cleaned set, and the scripts of scripts/step7 that   *)
(* submit the jobs to EMR Serverless.                                      *)
(*                                                                         *)
(* A DataFrame is a record [cols, rows]: cols is the set of column names,  *)
(* rows is a bag of rows, and a row is a function from cols to cells.      *)
(* A cell is NULL (the empty tuple) or <<v>>.  Doubles are exact rationals *)
(* <<n, d>> in lowest terms (floating-point rounding is not modelled).     *)
(* A datetime string is the tuple <<y, mo, d, h, mi, s, us>> of its        *)
(* fields; a timestamp is <<seconds since 1970-01-01, microseconds>>.      *)
(***************************************************************************)
EXTENDS Integers, Sequences, FiniteSets, Bags, TLC

VARIABLES
    pc,         \* position of the running program in its main()
    df,         \* the DataFrame bound to the local variable df
    s3,         \* the object store: path -> what was written there
    exit_code,  \* process exit status: -1 while running, 0 success, 1 failure
    trace,      \* the operations executed so far, in order
    result      \* unit application: the value a function returned (or raised)

vars == <<pc, df, s3, exit_code, trace, result>>

-----------------------------------------------------------------------------
(* Cells and SQL three-valued logic                                        *)

NULL == <<>>
Some(v) == <<v>>
IsNull(x) == x = NULL

\* Column.isNull / Column.isNotNull: never NULL themselves
isNull(x) == Some(IsNull(x))
isNotNull(x) == Some(~IsNull(x))

\* a & b, a | b on nullable booleans (Kleene logic, as Spark SQL)
And3(a, b) ==
    IF a = Some(FALSE) \/ b = Some(FALSE) THEN Some(FALSE)
    ELSE IF IsNull(a) \/ IsNull(b) THEN NULL
    ELSE Some(TRUE)

Or3(a, b) ==
    IF a = Some(TRUE) \/ b = Some(TRUE) THEN Some(TRUE)
    ELSE IF IsNull(a) \/ IsNull(b) THEN NULL
    ELSE Some(FALSE)

\* when(cond, x).otherwise(y): x only where cond is TRUE (not NULL)
WhenOtherwise(cond, x, y) == IF cond = Some(TRUE) THEN x ELSE y

-----------------------------------------------------------------------------
(* Doubles as exact rationals                                              *)

RECURSIVE GCD(_, _)
GCD(a, b) == IF b = 0 THEN a ELSE GCD(b, a % b)

Abs(n) == IF n < 0 THEN -n ELSE n

\* n/d in lowest terms with a positive denominator (d # 0)
Rat(n, d) ==
    LET g == GCD(Abs(n), Abs(d))
        s == IF d < 0 THEN -1 ELSE 1
    IN  <<(s * n) \div g, (s * d) \div g>>

Dbl(n) == <<n, 1>>

RatLT(a, b) == a[1] * b[2] < b[1] * a[2]
RatLE(a, b) == a[1] * b[2] <= b[1] * a[2]
RatAdd(a, b) == Rat(a[1] * b[2] + b[1] * a[2], a[2] * b[2])
RatSub(a, b) == Rat(a[1] * b[2] - b[1] * a[2], a[2] * b[2])
RatMul(a, b) == Rat(a[1] * b[1], a[2] * b[2])

\* nullable arithmetic and comparison: NULL if either side is NULL;
\* x / 0 is NULL (Spark SQL, non-ANSI)
Lt(a, b) == IF IsNull(a) \/ IsNull(b) THEN NULL ELSE Some(RatLT(a[1], b[1]))
Le(a, b) == IF IsNull(a) \/ IsNull(b) THEN NULL ELSE Some(RatLE(a[1], b[1]))
Gt(a, b) == Lt(b, a)
Ge(a, b) == Le(b, a)
Minus(a, b) == IF IsNull(a) \/ IsNull(b) THEN NULL ELSE Some(RatSub(a[1], b[1]))
Times(a, b) == IF IsNull(a) \/ IsNull(b) THEN NULL ELSE Some(RatMul(a[1], b[1]))
Divide(a, b) ==
    IF IsNull(a) \/ IsNull(b) THEN NULL
    ELSE IF b[1][1] = 0 THEN NULL
    ELSE Some(Rat(a[1][1] * b[1][2], a[1][2] * b[1][1]))

\* mutant: a null value is reported as not in the list
IsIn_NullIsOutside(a, S) == Some(~IsNull(a) /\ a[1] \in S)

\* Column.isin(list of numbers)
IsIn(a, S) == IF IsNull(a) THEN NULL ELSE Some(a[1] \in S)

-----------------------------------------------------------------------------
(* Datetime strings and timestamps                                         *)

IsLeap(y) == (y % 4 = 0 /\ y % 100 # 0) \/ y % 400 = 0

DaysInMonth(y, m) ==
    IF m = 2 THEN (IF IsLeap(y) THEN 29 ELSE 28)
    ELSE IF m \in {4, 6, 9, 11} THEN 30 ELSE 31

\* days from 1970-01-01 to y-m-d (proleptic Gregorian, y >= 1970)
DaysFromCivil(y, m, d) ==
    LET yy  == IF m <= 2 THEN y - 1 ELSE y
        era == yy \div 400
        yoe == yy - era * 400
        mp  == (m + 9) % 12
        doy == (153 * mp + 2) \div 5 + d - 1
        doe == yoe * 365 + yoe \div 4 - yoe \div 100 + doy
    IN  era * 146097 + doe - 719468

\* the inverse: <<y, m, d>> of a day number
CivilFromDays(z0) ==
    LET z   == z0 + 719468
        era == z \div 146097
        doe == z - era * 146097
        yoe == (doe - doe \div 1460 + doe \div 36524 - doe \div 146096) \div 365
        doy == doe - (365 * yoe + yoe \div 4 - yoe \div 100)
        mp  == (5 * doy + 2) \div 153
        d   == doy - (153 * mp + 2) \div 5 + 1
        m   == IF mp < 10 THEN mp + 3 ELSE mp - 9
        y   == yoe + era * 400 + (IF m <= 2 THEN 1 ELSE 0)
    IN  <<y, m, d>>

\* whether the fields of a datetime string denote a real instant
ValidDateTime(s) ==
    /\ s[1] \in 1970..2037
    /\ s[2] \in 1..12
    /\ s[3] \in 1..DaysInMonth(s[1], s[2])
    /\ s[4] \in 0..23 /\ s[5] \in 0..59 /\ s[6] \in 0..59
    /\ s[7] \in 0..999999

\* to_timestamp(col): a string that does not parse gives NULL
to_timestamp(x) ==
    IF IsNull(x) THEN NULL
    ELSE LET s == x[1] IN
         IF ~ValidDateTime(s) THEN NULL
         ELSE Some(<<DaysFromCivil(s[1], s[2], s[3]) * 86400
                       + s[4] * 3600 + s[5] * 60 + s[6], s[7]>>)

\* unix_timestamp(timestamp column): whole seconds, the fraction is dropped
unix_timestamp(t) == IF IsNull(t) THEN NULL ELSE Some(Dbl(t[1][1]))

\* timestamp > timestamp compares to the microsecond
TsGt(a, b) ==
    IF IsNull(a) \/ IsNull(b) THEN NULL
    ELSE Some(a[1][1] > b[1][1] \/ (a[1][1] = b[1][1] /\ a[1][2] > b[1][2]))

\* year, month, hour, dayofweek (1 = Sunday ... 7 = Saturday) of a timestamp
year(t) == IF IsNull(t) THEN NULL
           ELSE Some(Dbl(CivilFromDays(t[1][1] \div 86400)[1]))
month(t) == IF IsNull(t) THEN NULL
            ELSE Some(Dbl(CivilFromDays(t[1][1] \div 86400)[2]))
dayofmonth(t) == CivilFromDays(t[1][1] \div 86400)[3]
hour(t) == IF IsNull(t) THEN NULL
           ELSE Some(Dbl((t[1][1] % 86400) \div 3600))
\* mutant: the ISO numbering, Monday = 1 ... Sunday = 7
dayofweek_Iso(t) == IF IsNull(t) THEN NULL
                    ELSE Some(Dbl(((t[1][1] \div 86400 + 3) % 7) + 1))
dayofweek(t) == IF IsNull(t) THEN NULL
                ELSE Some(Dbl(((t[1][1] \div 86400 + 4) % 7) + 1))

Pad2(n) == IF n < 10 THEN "0" \o ToString(n) ELSE ToString(n)

\* date_format(timestamp, "d") and date_format(timestamp, "yyyy-MM-dd")
date_format_d(t) == IF IsNull(t) THEN NULL ELSE Some(ToString(dayofmonth(t)))
date_format_ymd(t) ==
    IF IsNull(t) THEN NULL
    ELSE LET c == CivilFromDays(t[1][1] \div 86400)
         IN  Some(ToString(c[1]) \o "-" \o Pad2(c[2]) \o "-" \o Pad2(c[3]))

-----------------------------------------------------------------------------
(* DataFrame operations                                                    *)

DataFrame(cols, rows) == [cols |-> cols, rows |-> rows]

\* df.count()
Count(d) == BagCardinality(d.rows)

\* df.filter(cond): keeps the rows where cond is TRUE (NULL drops the row)
Filter(d, cond(_)) ==
    [d EXCEPT !.rows =
        [r \in {x \in DOMAIN d.rows : cond(x) = Some(TRUE)} |-> d.rows[r]]]

\* a row with column name set to v (added, or replaced if it exists)
RowWith(r, name, v) ==
    [c \in DOMAIN r \cup {name} |-> IF c = name THEN v ELSE r[c]]

\* df.withColumn(name, expr)
WithColumn(d, name, expr(_)) ==
    [cols |-> d.cols \cup {name},
     rows |-> BagOfAll(LAMBDA r : RowWith(r, name, expr(r)), d.rows)]

\* df.withColumnRenamed(old, new), new not yet a column
RenameRow(r, old, new) ==
    [c \in (DOMAIN r \ {old}) \cup {new} |-> IF c = new THEN r[old] ELSE r[c]]

WithColumnRenamed(d, old, new) ==
    IF old \notin d.cols THEN d
    ELSE [cols |-> (d.cols \ {old}) \cup {new},
          rows |-> BagOfAll(LAMBDA r : RenameRow(r, old, new), d.rows)]

\* the rows of d cut down to the columns cs
Project(d, cs) ==
    [cols |-> d.cols \cap cs,
     rows |-> BagOfAll(LAMBDA r : [c \in DOMAIN r \cap cs |-> r[c]], d.rows)]

\* the value of a row on the key columns ks
KeyOf(r, ks) == [c \in ks |-> r[c]]

\* df.dropDuplicates(ks): every DataFrame that keeps exactly one row for each
\* distinct value of the key; which row of a group is kept is the engine's choice
DropDuplicates(d, ks) ==
    LET keys == {KeyOf(r, ks) : r \in DOMAIN d.rows}
        group(k) == {r \in DOMAIN d.rows : KeyOf(r, ks) = k}
        picks == {f \in [keys -> DOMAIN d.rows] : \A k \in keys : f[k] \in group(k)}
    IN  {[cols |-> d.cols, rows |-> SetToBag({f[k] : k \in keys})] : f \in picks}

\* whether every column a stage reads exists (else Spark raises AnalysisException)
Resolves(d, names) == names \subseteq d.cols

-----------------------------------------------------------------------------
(* utils/common_functions.py                                               *)

RECURSIVE SelectMissing(_, _)
SelectMissing(required, cols) ==
    IF required = <<>> THEN <<>>
    ELSE (IF Head(required) \notin cols THEN <<Head(required)>> ELSE <<>>)
            \o SelectMissing(Tail(required), cols)

\* mutant: only the first missing column is reported
validate_required_columns_FirstOnly(d, required_columns) ==
    LET missing_columns == SelectMissing(required_columns, d.cols)
    IN  IF missing_columns # <<>>
        THEN [raised |-> "ValueError", missing |-> <<Head(missing_columns)>>,
              value |-> d]
        ELSE [raised |-> "none", missing |-> <<>>, value |-> d]

\* mutant: the check passes whatever the schema
validate_required_columns_NeverRaises(d, required_columns) ==
    [raised |-> "none", missing |-> <<>>, value |-> d]

\* validate_required_columns: raises ValueError(missing) or returns df
validate_required_columns(d, required_columns) ==
    LET missing_columns == SelectMissing(required_columns, d.cols)
    IN  IF missing_columns # <<>>
        THEN [raised |-> "ValueError", missing |-> missing_columns, value |-> d]
        ELSE [raised |-> "none", missing |-> <<>>, value |-> d]

\* mutant: only the first listed column is filtered
remove_null_values_FirstOnly(d, columns) ==
    IF columns = <<>> THEN d
    ELSE Filter(d, LAMBDA r : isNotNull(r[Head(columns)]))

RECURSIVE remove_null_values(_, _)
remove_null_values(d, columns) ==
    IF columns = <<>> THEN d
    ELSE remove_null_values(
            Filter(d, LAMBDA r : isNotNull(r[Head(columns)])), Tail(columns))

\* old_col.lower().replace(" ", "_") on the column names the model uses
LowerName(name) ==
    CASE name = "PULocationID" -> "pulocationid"
      [] name = "DOLocationID" -> "dolocationid"
      [] name = "Trip Distance" -> "trip_distance"
      [] name = "VendorID" -> "vendorid"
      [] OTHER -> name

RECURSIVE RenameAll(_, _)
RenameAll(d, todo) ==
    IF todo = {} THEN d
    ELSE LET old_col == CHOOSE c \in todo : TRUE
             new_col == LowerName(old_col)
         IN  RenameAll(IF old_col # new_col
                       THEN WithColumnRenamed(d, old_col, new_col) ELSE d,
                       todo \ {old_col})

standardize_column_names(d) == RenameAll(d, d.cols)

\* mutant: the fare is not checked
filter_invalid_trips_NoFare(d, fare_column, distance_column) ==
    Filter(d, LAMBDA r : Gt(r[distance_column], Some(Dbl(0))))

filter_invalid_trips(d, fare_column, distance_column) ==
    LET d1 == Filter(d, LAMBDA r : Ge(r[fare_column], Some(Dbl(0))))
    IN  Filter(d1, LAMBDA r : Gt(r[distance_column], Some(Dbl(0))))

\* "2025-12-31 23:59:59"
NoFutureCutoff == Some(<<2025, 12, 31, 23, 59, 59, 0>>)

\* mutant: the pickup string is parsed in place, as parse_date_column does
validate_trip_times_InPlace(d) ==
    LET d0 == WithColumn(d, "tpep_pickup_datetime",
                  LAMBDA r : to_timestamp(r["tpep_pickup_datetime"]))
        d1 == WithColumn(d0, "pickup_ts", LAMBDA r : r["tpep_pickup_datetime"])
        d2 == WithColumn(d1, "dropoff_ts",
                  LAMBDA r : to_timestamp(r["tpep_dropoff_datetime"]))
        d3 == Filter(d2, LAMBDA r : TsGt(r["dropoff_ts"], r["pickup_ts"]))
        current_timestamp == unix_timestamp(to_timestamp(NoFutureCutoff))
        d4 == Filter(d3, LAMBDA r : Le(unix_timestamp(r["pickup_ts"]), current_timestamp))
    IN  Filter(d4, LAMBDA r : Le(unix_timestamp(r["dropoff_ts"]), current_timestamp))

\* mutant: the dropoff is not compared with the cutoff
validate_trip_times_NoDropoffCutoff(d) ==
    LET d1 == WithColumn(d, "pickup_ts",
                  LAMBDA r : to_timestamp(r["tpep_pickup_datetime"]))
        d2 == WithColumn(d1, "dropoff_ts",
                  LAMBDA r : to_timestamp(r["tpep_dropoff_datetime"]))
        d3 == Filter(d2, LAMBDA r : TsGt(r["dropoff_ts"], r["pickup_ts"]))
        current_timestamp == unix_timestamp(to_timestamp(NoFutureCutoff))
    IN  Filter(d3, LAMBDA r : Le(unix_timestamp(r["pickup_ts"]), current_timestamp))

validate_trip_times(d) ==
    LET d1 == WithColumn(d, "pickup_ts",
                  LAMBDA r : to_timestamp(r["tpep_pickup_datetime"]))
        d2 == WithColumn(d1, "dropoff_ts",
                  LAMBDA r : to_timestamp(r["tpep_dropoff_datetime"]))
        d3 == Filter(d2, LAMBDA r : TsGt(r["dropoff_ts"], r["pickup_ts"]))
        current_timestamp == unix_timestamp(to_timestamp(NoFutureCutoff))
        d4 == Filter(d3, LAMBDA r : Le(unix_timestamp(r["pickup_ts"]), current_timestamp))
    IN  Filter(d4, LAMBDA r : Le(unix_timestamp(r["dropoff_ts"]), current_timestamp))

\* mutant: the difference is left in seconds
calculate_trip_duration_InSeconds(d) ==
    WithColumn(d, "trip_duration_minutes",
        LAMBDA r : Minus(unix_timestamp(r["dropoff_ts"]),
                         unix_timestamp(r["pickup_ts"])))

calculate_trip_duration(d) ==
    WithColumn(d, "trip_duration_minutes",
        LAMBDA r : Divide(Minus(unix_timestamp(r["dropoff_ts"]),
                                unix_timestamp(r["pickup_ts"])), Some(Dbl(60))))

\* mutant: the lower bound is not checked
validate_trip_duration_NoMin(d, min_minutes, max_minutes) ==
    Filter(d, LAMBDA r : Le(r["trip_duration_minutes"], Some(max_minutes)))

validate_trip_duration(d, min_minutes, max_minutes) ==
    Filter(d, LAMBDA r : And3(Ge(r["trip_duration_minutes"], Some(min_minutes)),
                              Le(r["trip_duration_minutes"], Some(max_minutes))))

calculate_trip_speed(d) ==
    WithColumn(d, "trip_speed_mph",
        LAMBDA r : WhenOtherwise(Gt(r["trip_duration_minutes"], Some(Dbl(0))),
                      Divide(r["trip_distance"],
                             Divide(r["trip_duration_minutes"], Some(Dbl(60)))),
                      NULL))

\* mutant: the lower bound is not checked
validate_trip_speed_NoMin(d, min_mph, max_mph) ==
    Filter(d, LAMBDA r : Or3(isNull(r["trip_speed_mph"]),
                             Le(r["trip_speed_mph"], Some(max_mph))))

\* mutant: the upper bound is not checked
validate_trip_speed_NoMax(d, min_mph, max_mph) ==
    Filter(d, LAMBDA r : Or3(isNull(r["trip_speed_mph"]),
                             Ge(r["trip_speed_mph"], Some(min_mph))))

\* mutant: rows with a null speed are dropped like any out-of-range row
validate_trip_speed_NoNull(d, min_mph, max_mph) ==
    Filter(d, LAMBDA r : And3(Ge(r["trip_speed_mph"], Some(min_mph)),
                              Le(r["trip_speed_mph"], Some(max_mph))))

validate_trip_speed(d, min_mph, max_mph) ==
    Filter(d, LAMBDA r : Or3(isNull(r["trip_speed_mph"]),
                             And3(Ge(r["trip_speed_mph"], Some(min_mph)),
                                  Le(r["trip_speed_mph"], Some(max_mph)))))

\* mutant: the key leaves out the fare
key_columns_NoFare ==
    {"tpep_pickup_datetime", "tpep_dropoff_datetime", "pulocationid",
     "dolocationid", "trip_distance"}

key_columns ==
    {"tpep_pickup_datetime", "tpep_dropoff_datetime", "pulocationid",
     "dolocationid", "trip_distance", "fare_amount"}

\* mutant: df.dropDuplicates() over all columns instead of the key
remove_duplicates_AllColumns(d) ==
    LET existing_key_columns == key_columns \cap d.cols
    IN  IF existing_key_columns # {}
        THEN DropDuplicates(d, d.cols)
        ELSE {d}

\* remove_duplicates: the set of DataFrames it can return
remove_duplicates(d) ==
    LET existing_key_columns == key_columns \cap d.cols
    IN  IF existing_key_columns # {}
        THEN DropDuplicates(d, existing_key_columns)
        ELSE {d}

add_temporal_features(d) ==
    LET d1 == WithColumn(d, "pickup_year", LAMBDA r : year(r["pickup_ts"]))
        d2 == WithColumn(d1, "pickup_month", LAMBDA r : month(r["pickup_ts"]))
        d3 == WithColumn(d2, "pickup_day", LAMBDA r : date_format_d(r["pickup_ts"]))
        d4 == WithColumn(d3, "pickup_hour", LAMBDA r : hour(r["pickup_ts"]))
        d5 == WithColumn(d4, "pickup_day_of_week", LAMBDA r : dayofweek(r["pickup_ts"]))
    IN  WithColumn(d5, "pickup_date", LAMBDA r : date_format_ymd(r["pickup_ts"]))

airport_zones == {Dbl(1), Dbl(2), Dbl(3)}

\* the trip length category, airport flags and airport trip flag
LengthAndAirport(d1, inclusive) ==
    LET d2 == IF "trip_distance" \in d1.cols
              THEN WithColumn(d1, "trip_length_category",
                      LAMBDA r :
                        LET below(x, y) == IF inclusive THEN Le(x, y) ELSE Lt(x, y)
                        IN  WhenOtherwise(below(r["trip_distance"], Some(Dbl(2))),
                                Some("short"),
                                WhenOtherwise(below(r["trip_distance"], Some(Dbl(5))),
                                    Some("medium"), Some("long"))))
              ELSE d1
        d3 == IF "pulocationid" \in d2.cols
              THEN WithColumn(d2, "is_airport_pickup",
                      LAMBDA r : IsIn(r["pulocationid"], airport_zones))
              ELSE d2
        d4 == IF "dolocationid" \in d3.cols
              THEN WithColumn(d3, "is_airport_dropoff",
                      LAMBDA r : IsIn(r["dolocationid"], airport_zones))
              ELSE d3
    IN  IF "is_airport_pickup" \in d4.cols /\ "is_airport_dropoff" \in d4.cols
        THEN WithColumn(d4, "is_airport_trip",
                LAMBDA r : Or3(r["is_airport_pickup"], r["is_airport_dropoff"]))
        ELSE d4

\* mutant: the tip percentage is computed without the guard on total_amount
add_derived_features_NoGuard(d) ==
    LengthAndAirport(
        IF "tip_amount" \in d.cols /\ "total_amount" \in d.cols
        THEN WithColumn(d, "tip_percentage",
                LAMBDA r : Times(Divide(r["tip_amount"], r["total_amount"]),
                                 Some(Dbl(100))))
        ELSE d, FALSE)

\* mutant: the category boundaries are inclusive (<= 2.0, <= 5.0)
add_derived_features_InclusiveBounds(d) ==
    LengthAndAirport(
        IF "tip_amount" \in d.cols /\ "total_amount" \in d.cols
        THEN WithColumn(d, "tip_percentage",
                LAMBDA r : WhenOtherwise(Gt(r["total_amount"], Some(Dbl(0))),
                              Times(Divide(r["tip_amount"], r["total_amount"]),
                                    Some(Dbl(100))),
                              Some(Dbl(0))))
        ELSE d, TRUE)

add_derived_features(d) ==
    LET d1 == IF "tip_amount" \in d.cols /\ "total_amount" \in d.cols
              THEN WithColumn(d, "tip_percentage",
                      LAMBDA r : WhenOtherwise(Gt(r["total_amount"], Some(Dbl(0))),
                                    Times(Divide(r["tip_amount"], r["total_amount"]),
                                          Some(Dbl(100))),
                                    Some(Dbl(0))))
              ELSE d
        d2 == IF "trip_distance" \in d1.cols
              THEN WithColumn(d1, "trip_length_category",
                      LAMBDA r : WhenOtherwise(Lt(r["trip_distance"], Some(Dbl(2))),
                                    Some("short"),
                                    WhenOtherwise(Lt(r["trip_distance"], Some(Dbl(5))),
                                        Some("medium"), Some("long"))))
              ELSE d1
        d3 == IF "pulocationid" \in d2.cols
              THEN WithColumn(d2, "is_airport_pickup",
                      LAMBDA r : IsIn(r["pulocationid"], airport_zones))
              ELSE d2
        d4 == IF "dolocationid" \in d3.cols
              THEN WithColumn(d3, "is_airport_dropoff",
                      LAMBDA r : IsIn(r["dolocationid"], airport_zones))
              ELSE d3
    IN  IF "is_airport_pickup" \in d4.cols /\ "is_airport_dropoff" \in d4.cols
        THEN WithColumn(d4, "is_airport_trip",
                LAMBDA r : Or3(r["is_airport_pickup"], r["is_airport_dropoff"]))
        ELSE d4

\* mutant: a trip needs a passenger
validate_passenger_count_AtLeastOne(d, max_passengers) ==
    Filter(d, LAMBDA r : And3(Ge(r["passenger_count"], Some(Dbl(1))),
                              Le(r["passenger_count"], Some(max_passengers))))

validate_passenger_count(d, max_passengers) ==
    Filter(d, LAMBDA r : And3(Ge(r["passenger_count"], Some(Dbl(0))),
                              Le(r["passenger_count"], Some(max_passengers))))

\* the columns add_quality_flags reads
quality_flag_inputs == {"pulocationid", "dolocationid", "payment_type"}

\* mutant: when(...) without otherwise(False): the flag is null where not true
add_quality_flags_NoOtherwise(d) ==
    LET d1 == WithColumn(d, "has_valid_locations",
                  LAMBDA r : WhenOtherwise(And3(isNotNull(r["pulocationid"]),
                                                isNotNull(r["dolocationid"])),
                                Some(TRUE), NULL))
    IN  WithColumn(d1, "has_valid_payment",
            LAMBDA r : WhenOtherwise(isNotNull(r["payment_type"]),
                          Some(TRUE), NULL))

add_quality_flags(d) ==
    LET d1 == WithColumn(d, "has_valid_locations",
                  LAMBDA r : WhenOtherwise(And3(isNotNull(r["pulocationid"]),
                                                isNotNull(r["dolocationid"])),
                                Some(TRUE), Some(FALSE)))
    IN  WithColumn(d1, "has_valid_payment",
            LAMBDA r : WhenOtherwise(isNotNull(r["payment_type"]),
                          Some(TRUE), Some(FALSE)))

\* write_to_s3 that adds to what the path holds, whatever the mode
write_to_s3_Append(store, d, s3_path, mode, partition_by) ==
    LET old == IF s3_path \in DOMAIN store THEN store[s3_path].rows ELSE EmptyBag
    IN  [p \in DOMAIN store \cup {s3_path} |->
            IF p = s3_path
            THEN [cols |-> d.cols, rows |-> old (+) d.rows,
                  partition_by |-> partition_by]
            ELSE store[p]]

\* write_to_s3: what the path holds afterwards
write_to_s3(store, d, s3_path, mode, partition_by) ==
    LET old == IF s3_path \in DOMAIN store THEN store[s3_path].rows ELSE EmptyBag
        new == [cols |-> d.cols,
                rows |-> IF mode = "append" THEN old (+) d.rows ELSE d.rows,
                partition_by |-> partition_by]
    IN  [p \in DOMAIN store \cup {s3_path} |-> IF p = s3_path THEN new ELSE store[p]]

-----------------------------------------------------------------------------
(* Raw input of the cleaning job                                           *)

\* the largest number of rows in a raw data set
MaxRows == 2

critical_columns ==
    <<"tpep_pickup_datetime", "tpep_dropoff_datetime", "passenger_count",
      "trip_distance", "fare_amount", "total_amount">>

SeqToSet(s) == {s[i] : i \in DOMAIN s}

OptionalRawColumns == {"PULocationID", "DOLocationID", "payment_type", "tip_amount"}

\* schemas with every required field and any of the optional ones
FullSchema == SeqToSet(critical_columns) \cup OptionalRawColumns

ReducedSchemas ==
    {SeqToSet(critical_columns) \cup o : o \in SUBSET OptionalRawColumns} \ {FullSchema}

\* schemas where required fields are absent (one of them spelled "Trip Distance")
DeficientSchemas ==
    {FullSchema \ m : m \in {{"fare_amount"}, {"passenger_count", "total_amount"}}}
    \cup {(FullSchema \ {"trip_distance"}) \cup {"Trip Distance"}}

Dt(y, mo, d, h, mi, s, us) == Some(<<y, mo, d, h, mi, s, us>>)
Num(n) == Some(Dbl(n))

\* pickup 2025-01-01 08:00:00, dropoff 08:10:00, 3.0 miles, fare 10, total 12,
\* tip 2, one passenger
BaseRow ==
    [tpep_pickup_datetime  |-> Dt(2025, 1, 1, 8, 0, 0, 0),
     tpep_dropoff_datetime |-> Dt(2025, 1, 1, 8, 10, 0, 0),
     passenger_count |-> Num(1),
     trip_distance   |-> Num(3),
     fare_amount     |-> Num(10),
     total_amount    |-> Num(12),
     tip_amount      |-> Num(2),
     PULocationID    |-> Num(4),
     DOLocationID    |-> Num(4),
     payment_type    |-> Num(1)]

\* BaseRow with the given fields replaced
Vary(changes) ==
    [c \in DOMAIN BaseRow |-> IF c \in DOMAIN changes THEN changes[c] ELSE BaseRow[c]]

TimeRows ==
    {Vary([tpep_dropoff_datetime |-> x]) :
        x \in {Dt(2025, 1, 1, 7, 0, 0, 0),        \* before the pickup
               Dt(2025, 1, 1, 8, 0, 0, 500000),   \* half a second
               Dt(2025, 1, 1, 8, 0, 30, 0),       \* 30 seconds
               Dt(2025, 1, 1, 8, 10, 0, 500000),  \* 10 minutes and half a second
               Dt(2025, 1, 2, 8, 1, 0, 0),        \* 1441 minutes
               Dt(2025, 2, 30, 8, 10, 0, 0),      \* no such day
               NULL}}
    \cup {Vary([tpep_dropoff_datetime |-> Dt(2025, 1, 1, 8, 1, 0, 0),
                trip_distance |-> Num(1)]),                       \* 1 minute
          Vary([tpep_dropoff_datetime |-> Dt(2025, 1, 2, 8, 0, 0, 0),
                trip_distance |-> Num(24)]),                      \* 1440 min, 1 mph
          Vary([tpep_dropoff_datetime |-> Dt(2025, 1, 2, 8, 0, 0, 0),
                trip_distance |-> Num(2400)]),                    \* 100 mph
          Vary([tpep_pickup_datetime  |-> Dt(2025, 12, 31, 23, 50, 0, 0),
                tpep_dropoff_datetime |-> Dt(2025, 12, 31, 23, 59, 59, 500000)]),
                                                  \* ends within the last second
          Vary([tpep_pickup_datetime  |-> Dt(2025, 12, 31, 23, 50, 0, 0),
                tpep_dropoff_datetime |-> Dt(2026, 1, 1, 0, 0, 0, 0)]),
          Vary([tpep_pickup_datetime  |-> Dt(2025, 12, 31, 23, 50, 0, 0),
                tpep_dropoff_datetime |-> Dt(2025, 12, 31, 23, 59, 59, 0)]),
          Vary([tpep_pickup_datetime  |-> NULL])}

DistanceRows ==
    {Vary([trip_distance |-> x]) :
        x \in {NULL, Num(-1), Num(0), Some(<<1, 10>>), Num(2), Num(5), Num(20)}}

FareRows ==
    {Vary([fare_amount |-> x]) : x \in {NULL, Num(-1), Num(0)}}

TipRows ==
    {Vary([total_amount |-> x[1], tip_amount |-> x[2]]) :
        x \in {<<Num(0), Num(5)>>, <<Num(12), NULL>>,
               <<Num(-5), Num(2)>>, <<NULL, Num(2)>>}}

PassengerRows ==
    {Vary([passenger_count |-> x]) : x \in {NULL, Num(-1), Num(0), Num(6), Num(7)}}

ZoneRows ==
    {Vary([PULocationID |-> x[1], DOLocationID |-> x[2], payment_type |-> x[3]]) :
        x \in {<<Num(1), Num(4), Num(1)>>, <<Num(4), NULL, Num(1)>>,
               <<NULL, Num(2), Num(1)>>, <<Num(4), Num(4), NULL>>}}

\* the rows a raw data set with every column is drawn from
RawRows ==
    {BaseRow} \cup TimeRows \cup DistanceRows \cup FareRows \cup TipRows
        \cup PassengerRows \cup ZoneRows

\* the rows a raw data set lacking columns is drawn from: the optional fields
\* vary, and one row fails each kind of filter
FewRawRows ==
    {BaseRow} \cup ZoneRows \cup TipRows
        \cup {Vary([tpep_dropoff_datetime |-> Dt(2025, 1, 1, 7, 0, 0, 0)]),
              Vary([trip_distance |-> Num(0)]),
              Vary([passenger_count |-> Num(7)])}

\* a row cut down to (and, for "Trip Distance", spelled as) the schema
RawRow(r, schema) ==
    [c \in schema |-> IF c = "Trip Distance" THEN r["trip_distance"] ELSE r[c]]

RECURSIVE BagsUpTo(_, _)
BagsUpTo(S, n) ==
    IF n = 0 THEN {EmptyBag}
    ELSE LET smaller == BagsUpTo(S, n - 1)
         IN  smaller \cup {b (+) SetToBag({r}) : b \in smaller, r \in S}

DataSetsOver(schema, rowset) ==
    {DataFrame(schema, b) :
        b \in BagsUpTo({RawRow(r, schema) : r \in rowset}, MaxRows)}

RawDataSets ==
    DataSetsOver(FullSchema, RawRows)
    \cup UNION {DataSetsOver(schema, FewRawRows) :
                    schema \in ReducedSchemas \cup DeficientSchemas}

-----------------------------------------------------------------------------
(* jobs/data_validation_cleaning.py: main()                                *)

NoFrame == DataFrame({}, EmptyBag)
NoResult == [op |-> "none"]

raw_path == "raw/"
output_path == "processed/trips_cleaned/"

Init ==
    /\ pc = "load_config"
    /\ df = NoFrame
    /\ \E raw \in RawDataSets :
          s3 = (raw_path :> [cols |-> raw.cols, rows |-> raw.rows,
                             partition_by |-> <<>>])
    /\ exit_code = -1
    /\ trace = <<>>
    /\ result = NoResult

\* sys.exit(code), or an exception nobody catches
Exit(code, event) ==
    /\ pc' = "exit"
    /\ exit_code' = code
    /\ trace' = Append(trace, event)
    /\ UNCHANGED <<df, s3, result>>

\* one statement of main: df rebound, events logged, control moves on
Stage(from, to, newdf, events) ==
    /\ pc = from
    /\ pc' = to
    /\ df' = newdf
    /\ trace' = trace \o events
    /\ UNCHANGED <<s3, exit_code, result>>

ConfigOutcomes == {"ok", "empty_bucket", "exception"}

\* lines 40-49
LoadConfig ==
    /\ pc = "load_config"
    /\ \E outcome \in ConfigOutcomes :
          IF outcome = "ok"
          THEN Stage("load_config", "read", df, <<"load_config">>)
          ELSE Exit(1, "config_error")

\* lines 57-59: spark.read.parquet(input_path); df.count()
ReadRaw ==
    Stage("read", "validate_required_columns",
          DataFrame(s3[raw_path].cols, s3[raw_path].rows), <<"read", "count">>)

\* lines 71-76
ValidateRequiredColumns ==
    /\ pc = "validate_required_columns"
    /\ IF validate_required_columns(df, critical_columns).raised = "ValueError"
       THEN Exit(1, "validate_required_columns")
       ELSE Stage("validate_required_columns", "standardize_column_names", df,
                  <<"validate_required_columns">>)

\* line 79
StandardizeColumnNames ==
    Stage("standardize_column_names", "remove_null_values",
          standardize_column_names(df), <<"standardize_column_names">>)

\* mutant: only the two datetime fields are passed as critical
RemoveNullValues_TimesOnly ==
    Stage("remove_null_values", "validate_trip_times",
          remove_null_values(df, <<"tpep_pickup_datetime", "tpep_dropoff_datetime">>),
          <<"remove_null_values", "count">>)

\* lines 82-84
RemoveNullValues ==
    Stage("remove_null_values", "validate_trip_times",
          remove_null_values(df, critical_columns),
          <<"remove_null_values", "count">>)

\* lines 87-88
ValidateTripTimes ==
    Stage("validate_trip_times", "calculate_trip_duration",
          validate_trip_times(df), <<"validate_trip_times", "count">>)

\* line 91
CalculateTripDuration ==
    Stage("calculate_trip_duration", "validate_trip_duration",
          calculate_trip_duration(df), <<"calculate_trip_duration">>)

\* mutant: control passes over the speed stages
ValidateTripDuration_ThenFareFilter ==
    Stage("validate_trip_duration", "filter_invalid_trips",
          validate_trip_duration(
              WithColumn(df, "trip_speed_mph", LAMBDA r : NULL), Dbl(1), Dbl(1440)),
          <<"validate_trip_duration", "count">>)

\* lines 94-95
ValidateTripDuration ==
    Stage("validate_trip_duration", "calculate_trip_speed",
          validate_trip_duration(df, Dbl(1), Dbl(1440)),
          <<"validate_trip_duration", "count">>)

\* line 98
CalculateTripSpeed ==
    Stage("calculate_trip_speed", "validate_trip_speed",
          calculate_trip_speed(df), <<"calculate_trip_speed">>)

\* lines 101-102
ValidateTripSpeed ==
    Stage("validate_trip_speed", "filter_invalid_trips",
          validate_trip_speed(df, Dbl(1), Dbl(100)),
          <<"validate_trip_speed", "count">>)

\* lines 105-107
FilterInvalidTrips ==
    Stage("filter_invalid_trips", "validate_passenger_count",
          filter_invalid_trips(df, "fare_amount", "trip_distance"),
          <<"filter_invalid_trips", "count">>)

\* lines 110-111
ValidatePassengerCount ==
    Stage("validate_passenger_count", "remove_duplicates",
          validate_passenger_count(df, Dbl(6)),
          <<"validate_passenger_count", "count">>)

\* lines 114-118
RemoveDuplicates ==
    \E kept \in remove_duplicates(df) :
        Stage("remove_duplicates", "add_temporal_features", kept,
              <<"count", "remove_duplicates", "count">>)

\* line 121
AddTemporalFeatures ==
    Stage("add_temporal_features", "add_derived_features",
          add_temporal_features(df), <<"add_temporal_features">>)

\* mutant: the stage selects the columns later stages read, without the duration
AddDerivedFeatures_DropsDuration ==
    Stage("add_derived_features", "add_quality_flags",
          Project(add_derived_features(df),
                  add_derived_features(df).cols \ {"trip_duration_minutes"}),
          <<"add_derived_features">>)

\* line 124
AddDerivedFeatures ==
    Stage("add_derived_features", "add_quality_flags",
          add_derived_features(df), <<"add_derived_features">>)

\* line 127: a column it reads may be absent, and nothing catches the exception
AddQualityFlags ==
    /\ pc = "add_quality_flags"
    /\ IF Resolves(df, quality_flag_inputs)
       THEN Stage("add_quality_flags", "write", add_quality_flags(df),
                  <<"add_quality_flags">>)
       ELSE Exit(1, "AnalysisException")

\* lines 132-142
WriteCleaned ==
    /\ pc = "write"
    /\ s3' = write_to_s3(s3, df, output_path, "overwrite",
                IF "pickup_year" \in df.cols /\ "pickup_month" \in df.cols
                THEN <<"pickup_year", "pickup_month">> ELSE <<>>)
    /\ pc' = "exit"
    /\ exit_code' = 0
    /\ trace' = Append(trace, "write_to_s3")
    /\ UNCHANGED <<df, result>>

Next ==
    \/ LoadConfig
    \/ ReadRaw
    \/ ValidateRequiredColumns
    \/ StandardizeColumnNames
    \/ RemoveNullValues
    \/ ValidateTripTimes
    \/ CalculateTripDuration
    \/ ValidateTripDuration
    \/ CalculateTripSpeed
    \/ ValidateTripSpeed
    \/ FilterInvalidTrips
    \/ ValidatePassengerCount
    \/ RemoveDuplicates
    \/ AddTemporalFeatures
    \/ AddDerivedFeatures
    \/ AddQualityFlags
    \/ WriteCleaned

Spec == Init /\ [][Next]_vars

-----------------------------------------------------------------------------
(* The functions of utils/common_functions.py called directly: a caller    *)
(* holds a DataFrame and calls functions on it one after another, until    *)
(* one raises.                                                             *)

\* the largest number of rows of a DataFrame handed to a function
MaxUnitRows == 2
\* the largest number of calls in a row
MaxCalls == 2

Frames(schema, rowset) ==
    {DataFrame(schema, b) : b \in BagsUpTo(rowset, MaxUnitRows)}

SpeedFrames ==
    Frames({"trip_distance", "trip_duration_minutes"},
           {[trip_distance |-> x, trip_duration_minutes |-> y] :
                x \in {NULL, Num(0), Num(3), Num(20)},
                y \in {NULL, Num(-5), Num(0), Some(<<1, 2>>), Num(10)}})

DistanceFrames ==
    Frames({"trip_distance"},
           {[trip_distance |-> x] :
                x \in {NULL, Num(-1), Num(0), Some(<<19, 10>>), Num(2),
                       Some(<<49, 10>>), Num(5), Num(7)}})

TipFrames ==
    Frames({"tip_amount", "total_amount"},
           {[tip_amount |-> x[1], total_amount |-> x[2]] :
                x \in {<<Num(5), Num(0)>>, <<Num(2), Num(12)>>, <<Num(0), Num(12)>>,
                       <<NULL, Num(12)>>, <<NULL, Num(0)>>, <<Num(2), Num(-5)>>,
                       <<Num(2), NULL>>}})
    \cup Frames({"total_amount"}, {[total_amount |-> x] : x \in {Num(0), Num(12)}})

\* schemas with two, one or none of the key columns of remove_duplicates
DedupFrames ==
    Frames({"pulocationid", "fare_amount", "passenger_count"},
           {[pulocationid |-> x, fare_amount |-> y, passenger_count |-> z] :
                x \in {NULL, Num(1)}, y \in {Num(0), Num(10)}, z \in {Num(1), Num(2)}})
    \cup Frames({"fare_amount", "passenger_count"},
           {[fare_amount |-> y, passenger_count |-> z] :
                y \in {NULL, Num(10)}, z \in {Num(1), Num(2)}})
    \cup Frames({"passenger_count", "payment_type"},
           {[passenger_count |-> y, payment_type |-> z] :
                y \in {Num(1), Num(2)}, z \in {NULL, Num(1)}})

\* pickup and dropoff strings around the two comparisons of validate_trip_times
TimeFrames ==
    Frames({"tpep_pickup_datetime", "tpep_dropoff_datetime"},
           {[tpep_pickup_datetime |-> x[1], tpep_dropoff_datetime |-> x[2]] :
                x \in {<<Dt(2025, 1, 1, 8, 0, 0, 0), Dt(2025, 1, 1, 8, 10, 0, 0)>>,
                       <<Dt(2025, 1, 1, 8, 0, 0, 0), Dt(2025, 1, 1, 8, 0, 0, 0)>>,
                       <<Dt(2025, 1, 1, 8, 0, 0, 0), Dt(2025, 1, 1, 7, 0, 0, 0)>>,
                       <<Dt(2025, 1, 1, 8, 0, 0, 0), Dt(2025, 1, 1, 8, 0, 0, 500000)>>,
                       <<Dt(2025, 12, 31, 23, 50, 0, 0), Dt(2025, 12, 31, 23, 59, 59, 0)>>,
                       <<Dt(2025, 12, 31, 23, 50, 0, 0),
                         Dt(2025, 12, 31, 23, 59, 59, 500000)>>,
                       <<Dt(2025, 12, 31, 23, 50, 0, 0), Dt(2026, 1, 1, 0, 0, 0, 0)>>,
                       <<Dt(2025, 12, 31, 23, 59, 59, 200000),
                         Dt(2025, 12, 31, 23, 59, 59, 700000)>>,
                       <<Dt(2026, 1, 1, 0, 0, 0, 0), Dt(2026, 1, 1, 0, 10, 0, 0)>>,
                       <<NULL, Dt(2025, 1, 1, 8, 10, 0, 0)>>,
                       <<Dt(2025, 1, 1, 8, 0, 0, 0), Dt(2025, 2, 30, 8, 0, 0, 0)>>,
                       <<Dt(2025, 2, 30, 8, 0, 0, 0), Dt(2025, 3, 1, 8, 0, 0, 0)>>}})

\* every pattern of nulls over three columns
NullFrames ==
    Frames({"fare_amount", "total_amount", "payment_type"},
           {[fare_amount |-> x, total_amount |-> y, payment_type |-> z] :
                x \in {NULL, Num(10)}, y \in {NULL, Num(12)}, z \in {NULL, Num(1)}})

\* the column lists callers pass to remove_null_values
NullLists ==
    {<<"fare_amount", "total_amount">>, <<"total_amount", "fare_amount">>,
     <<"payment_type">>, <<"payment_type", "total_amount", "fare_amount">>}

\* every pattern of nulls over the columns add_quality_flags reads
FlagFrames ==
    Frames({"pulocationid", "dolocationid", "payment_type"},
           {[pulocationid |-> x, dolocationid |-> y, payment_type |-> z] :
                x \in {NULL, Num(1)}, y \in {NULL, Num(4)}, z \in {NULL, Num(2)}})

\* pickups on each kind of day, with the string pickup_ts was parsed from
PickupFrames ==
    Frames({"tpep_pickup_datetime", "pickup_ts"},
           {[tpep_pickup_datetime |-> x, pickup_ts |-> to_timestamp(x)] :
                x \in {Dt(2025, 1, 1, 8, 0, 0, 0),         \* a Wednesday
                       Dt(2025, 1, 5, 23, 59, 59, 0),      \* a Sunday
                       Dt(2025, 1, 6, 0, 0, 0, 0),         \* a Monday
                       Dt(2025, 11, 15, 12, 30, 0, 500000), \* a Saturday
                       Dt(2024, 2, 29, 17, 5, 0, 0),       \* a Thursday
                       NULL}})

\* zone ids inside and outside the airport set, or null; both columns or one
ZoneFrames ==
    Frames({"pulocationid", "dolocationid"},
           {[pulocationid |-> x, dolocationid |-> y] :
                x \in {NULL, Num(1), Num(4)}, y \in {NULL, Num(2), Num(4)}})
    \cup Frames({"dolocationid"}, {[dolocationid |-> y] : y \in {NULL, Num(3)}})

UnitFrames ==
    SpeedFrames \cup DistanceFrames \cup TipFrames \cup DedupFrames \cup TimeFrames
    \cup NullFrames \cup FlagFrames \cup PickupFrames \cup ZoneFrames

\* the required_columns lists callers pass
RequiredLists ==
    {<<"trip_distance", "trip_duration_minutes">>,
     <<"fare_amount", "pulocationid", "passenger_count">>,
     <<"tip_amount", "total_amount", "trip_distance">>}

\* the (min_mph, max_mph) callers pass: the defaults and another pair
SpeedLimits == {<<Dbl(1), Dbl(100)>>, <<Dbl(18), Dbl(120)>>}

EmptyStore == [p \in {} |-> NoFrame]

UnitInit ==
    /\ pc = "call"
    /\ df \in UnitFrames
    /\ s3 = EmptyStore
    /\ exit_code = -1
    /\ trace = <<>>
    /\ result = NoResult

\* the call returns out
Return(op, args, out) ==
    /\ result' = [op |-> op, args |-> args, input |-> df, raised |-> "none",
                  missing |-> <<>>, output |-> out]
    /\ df' = out
    /\ pc' = "call"

\* the call raises: the caller is gone
Raise(op, args, exception, missing) ==
    /\ result' = [op |-> op, args |-> args, input |-> df, raised |-> exception,
                  missing |-> missing, output |-> df]
    /\ df' = df
    /\ pc' = "raised"

\* a call of a function that reads the columns needs
Call(op, args, needs, outs) ==
    /\ pc = "call"
    /\ Len(trace) < MaxCalls
    /\ trace' = Append(trace, op)
    /\ UNCHANGED <<s3, exit_code>>
    /\ IF Resolves(df, needs)
       THEN \E out \in outs : Return(op, args, out)
       ELSE Raise(op, args, "AnalysisException", <<>>)

CallValidateRequiredColumns ==
    \E required \in RequiredLists :
        /\ pc = "call"
        /\ Len(trace) < MaxCalls
        /\ trace' = Append(trace, "validate_required_columns")
        /\ UNCHANGED <<s3, exit_code>>
        /\ LET got == validate_required_columns(df, required)
           IN  IF got.raised = "ValueError"
               THEN Raise("validate_required_columns", required, "ValueError",
                          got.missing)
               ELSE Return("validate_required_columns", required, got.value)

CallCalculateTripSpeed ==
    Call("calculate_trip_speed", <<>>, {"trip_distance", "trip_duration_minutes"},
         {calculate_trip_speed(df)})

CallValidateTripSpeed ==
    \E limits \in SpeedLimits :
        Call("validate_trip_speed", limits, {"trip_speed_mph"},
             {validate_trip_speed(df, limits[1], limits[2])})

CallRemoveDuplicates ==
    Call("remove_duplicates", <<>>, {}, remove_duplicates(df))

CallAddDerivedFeatures ==
    Call("add_derived_features", <<>>, {}, {add_derived_features(df)})

CallValidateTripTimes ==
    Call("validate_trip_times", <<>>,
         {"tpep_pickup_datetime", "tpep_dropoff_datetime"}, {validate_trip_times(df)})

CallRemoveNullValues ==
    \E columns \in NullLists :
        Call("remove_null_values", columns, SeqToSet(columns),
             {remove_null_values(df, columns)})

CallAddQualityFlags ==
    Call("add_quality_flags", <<>>, quality_flag_inputs, {add_quality_flags(df)})

CallAddTemporalFeatures ==
    Call("add_temporal_features", <<>>, {"pickup_ts"}, {add_temporal_features(df)})

UnitNext ==
    \/ CallValidateRequiredColumns
    \/ CallCalculateTripSpeed
    \/ CallValidateTripSpeed
    \/ CallRemoveDuplicates
    \/ CallAddDerivedFeatures
    \/ CallValidateTripTimes
    \/ CallRemoveNullValues
    \/ CallAddQualityFlags
    \/ CallAddTemporalFeatures

SpecUnit == UnitInit /\ [][UnitNext]_vars

-----------------------------------------------------------------------------
(* Properties of the cleaning job                                          *)

\* the job ran to its end and wrote the cleaned set
Completed == pc = "exit" /\ exit_code = 0

\* the rows that survived: what the sink holds, and the raw rows read
Written == s3[output_path]
RawInput == s3[raw_path]
Survivors == DOMAIN Written.rows

InRange(x, lo, hi) == ~IsNull(x) /\ RatLE(Dbl(lo), x[1]) /\ RatLE(x[1], Dbl(hi))

\* seconds and microseconds of a timestamp cell
Secs(t) == t[1][1]
Micros(t) == t[1][2]

\* C1: after the cleaning job completes, every surviving row has dropoff_ts
\* strictly after pickup_ts and 1.0 <= trip_duration_minutes <= 1440.0
C1_TimesAndDuration ==
    Completed =>
        \A r \in Survivors :
            /\ ~IsNull(r["pickup_ts"]) /\ ~IsNull(r["dropoff_ts"])
            /\ \/ Secs(r["dropoff_ts"]) > Secs(r["pickup_ts"])
               \/ /\ Secs(r["dropoff_ts"]) = Secs(r["pickup_ts"])
                  /\ Micros(r["dropoff_ts"]) > Micros(r["pickup_ts"])
            /\ InRange(r["trip_duration_minutes"], 1, 1440)

\* a run that dropped rows and kept trips of exactly 1 and exactly 1440 minutes
C1_Witness ==
    /\ Completed
    /\ Count(RawInput) = 2
    /\ \E r \in Survivors : r["trip_duration_minutes"] = Num(1)
    /\ \E r \in Survivors : r["trip_duration_minutes"] = Num(1440)

\* distance / (duration_minutes / 60) when duration_minutes > 0, else NULL
SpeedOf(distance, duration) ==
    IF IsNull(duration) \/ ~RatLT(Dbl(0), duration[1]) THEN NULL
    ELSE IF IsNull(distance) THEN NULL
    ELSE Some(Rat(distance[1][1] * 60 * duration[1][2],
                  distance[1][2] * duration[1][1]))

\* C2: after the cleaning job completes, trip_speed_mph of every surviving row
\* is null or within [1.0, 100.0], and it is distance / (duration_minutes / 60)
\* when duration_minutes > 0 and null otherwise
C2_SpeedRange ==
    Completed =>
        \A r \in Survivors :
            /\ IsNull(r["trip_speed_mph"]) \/ InRange(r["trip_speed_mph"], 1, 100)
            /\ r["trip_speed_mph"] =
                    SpeedOf(r["trip_distance"], r["trip_duration_minutes"])

\* a run that kept trips of exactly 1 mph and of exactly 100 mph
C2_Witness ==
    /\ Completed
    /\ \E r \in Survivors : r["trip_speed_mph"] = Num(1)
    /\ \E r \in Survivors : r["trip_speed_mph"] = Num(100)

\* C3: after the cleaning job completes, every surviving row has
\* fare_amount >= 0, trip_distance > 0 and 0 <= passenger_count <= 6
C3_FareDistancePassengers ==
    Completed =>
        \A r \in Survivors :
            /\ ~IsNull(r["fare_amount"]) /\ RatLE(Dbl(0), r["fare_amount"][1])
            /\ ~IsNull(r["trip_distance"]) /\ RatLT(Dbl(0), r["trip_distance"][1])
            /\ InRange(r["passenger_count"], 0, 6)

\* a fare of exactly 0 survived, and a raw row with distance 0 did not
C3_Witness ==
    /\ Completed
    /\ \E r \in Survivors : r["fare_amount"] = Num(0)
    /\ \E r \in DOMAIN RawInput.rows : r["trip_distance"] = Num(0)
    /\ Count(Written) = 1

\* the stages from the schema check to the passenger filter
CountedStages ==
    {"validate_required_columns", "standardize_column_names", "remove_null_values",
     "validate_trip_times", "calculate_trip_duration", "validate_trip_duration",
     "calculate_trip_speed", "validate_trip_speed", "filter_invalid_trips",
     "validate_passenger_count"}

\* out is in (a copy of it renamed by the normaliser, or with columns added)
SameRow(in, out) ==
    \A c \in DOMAIN in :
        IF pc = "standardize_column_names"
        THEN LowerName(c) \in DOMAIN out /\ out[LowerName(c)] = in[c]
        ELSE c \in DOMAIN out /\ out[c] = in[c]

\* how many rows of the bag b are the row in, seen through SameRow
RECURSIVE SumOver(_, _)
SumOver(S, b) ==
    IF S = {} THEN 0
    ELSE LET x == CHOOSE y \in S : TRUE IN b[x] + SumOver(S \ {x}, b)

\* one step of a counted stage loses rows at most
RowsOnlyDropped ==
    pc \in CountedStages =>
        /\ Count(df') <= Count(df)
        /\ \A out \in DOMAIN df'.rows :
              \E in \in DOMAIN df.rows : SameRow(in, out)
        /\ \A in \in DOMAIN df.rows :
              SumOver({out \in DOMAIN df'.rows : SameRow(in, out)}, df'.rows)
                  <= df.rows[in]

\* C8: at each stage from the schema check to the passenger filter, the number
\* of output rows is at most the number of input rows, and every output row is
\* an input row of that stage (none invented, none duplicated)
C8_RowCountNonIncrease == [][RowsOnlyDropped]_vars

\* the passenger filter has just run and earlier stages dropped a row
C8_Witness ==
    /\ pc = "remove_duplicates"
    /\ Count(df) = 1
    /\ Count(RawInput) = 2

-----------------------------------------------------------------------------
(* Properties of the functions called directly                             *)

Called(op) == result.op = op
Returned(op) == result.op = op /\ result.raised = "none"

\* whether two rows agree on the columns ks
Agree(r1, r2, ks) == \A c \in ks : r1[c] = r2[c]

\* the key columns present in the input of the call
PresentKey == key_columns \cap result.input.cols

\* no two output rows agree on the columns ks, and every input row has
\* exactly one output row agreeing with it, which is a row of the input
OnePerKey(ks) ==
    /\ \A r \in DOMAIN result.output.rows :
          /\ result.output.rows[r] = 1
          /\ r \in DOMAIN result.input.rows
          /\ \A q \in DOMAIN result.output.rows : Agree(r, q, ks) => r = q
    /\ \A r \in DOMAIN result.input.rows :
          \E q \in DOMAIN result.output.rows : Agree(r, q, ks)

\* C4 as claimed: for every schema remove_duplicates does not fail and keeps
\* exactly one row per distinct value of the key fields present in the schema
C4_AsClaimed ==
    Called("remove_duplicates") =>
        /\ result.raised = "none"
        /\ result.output.cols = result.input.cols
        /\ OnePerKey(PresentKey)

\* C4: remove_duplicates never fails; if the schema has at least one of the key
\* fields, no two output rows agree on all the key fields present and exactly
\* one row is retained per distinct key; if it has none, the record set is
\* returned unchanged
C4_DedupUniqueness ==
    Called("remove_duplicates") =>
        /\ result.raised = "none"
        /\ result.output.cols = result.input.cols
        /\ PresentKey # {} => OnePerKey(PresentKey)
        /\ PresentKey = {} => result.output = result.input

\* two rows with the same key and different other fields went in, one came out
C4_Witness ==
    /\ Called("remove_duplicates")
    /\ PresentKey = {"pulocationid", "fare_amount"}
    /\ Cardinality(DOMAIN result.input.rows) = 2
    /\ Count(result.output) = 1

NonPositive(x) == ~IsNull(x) /\ RatLE(x[1], Dbl(0))

\* C5: calculate_trip_speed gives a null speed to every row with a non-positive
\* duration, whatever its distance, and validate_trip_speed keeps every row
\* with a null speed; it drops a row only when its speed is non-null and
\* outside [min_mph, max_mph]
C5_SpeedNullPassthrough ==
    /\ Returned("calculate_trip_speed") =>
          /\ Count(result.output) = Count(result.input)
          /\ \A r \in DOMAIN result.output.rows :
                NonPositive(r["trip_duration_minutes"]) => IsNull(r["trip_speed_mph"])
    /\ Returned("validate_trip_speed") =>
          \A r \in DOMAIN result.input.rows :
             /\ IsNull(r["trip_speed_mph"]) =>
                   /\ r \in DOMAIN result.output.rows
                   /\ result.output.rows[r] = result.input.rows[r]
             /\ r \notin DOMAIN result.output.rows =>
                   /\ ~IsNull(r["trip_speed_mph"])
                   /\ \/ RatLT(r["trip_speed_mph"][1], result.args[1])
                      \/ RatLT(result.args[2], r["trip_speed_mph"][1])
             /\ ("trip_duration_minutes" \in DOMAIN r
                    /\ trace[1] = "calculate_trip_speed"
                    /\ NonPositive(r["trip_duration_minutes"])) =>
                   r \in DOMAIN result.output.rows

\* a 20-mile trip of 0 minutes came through both functions with a null speed,
\* and the other row was dropped
C5_Witness ==
    /\ trace = <<"calculate_trip_speed", "validate_trip_speed">>
    /\ Returned("validate_trip_speed")
    /\ Count(result.input) = 2
    /\ Count(result.output) = 1
    /\ \E r \in DOMAIN result.output.rows :
          /\ r["trip_duration_minutes"] = Num(0)
          /\ r["trip_distance"] = Num(20)
          /\ IsNull(r["trip_speed_mph"])

\* 100 * tip / total
TipPercent(tip, total) ==
    IF IsNull(tip) THEN NULL
    ELSE Some(Rat(100 * tip[1][1] * total[1][2], tip[1][2] * total[1][1]))

HasTipColumns == {"tip_amount", "total_amount"} \subseteq result.input.cols

\* what both statements of C6 share: the value on each side of the guard
TipPercentageValues ==
    /\ result.raised = "none"
    /\ Count(result.output) = Count(result.input)
    /\ \A r \in DOMAIN result.output.rows :
          /\ (~IsNull(r["total_amount"]) /\ RatLT(Dbl(0), r["total_amount"][1])) =>
                r["tip_percentage"] = TipPercent(r["tip_amount"], r["total_amount"])
          /\ NonPositive(r["total_amount"]) => r["tip_percentage"] = Num(0)

\* C6 as claimed: tip_percentage is 100 * tip / total where total > 0, 0.0
\* where total <= 0, and never null
C6_AsClaimed ==
    (Called("add_derived_features") /\ HasTipColumns) =>
        /\ TipPercentageValues
        /\ \A r \in DOMAIN result.output.rows : ~IsNull(r["tip_percentage"])

\* C6: tip_percentage is 100 * tip / total where total > 0, 0.0 where
\* total <= 0; it is never an error or infinity, and it is null exactly when
\* total > 0 and tip_amount is null
C6_TipPercentageGuard ==
    (Called("add_derived_features") /\ HasTipColumns) =>
        /\ TipPercentageValues
        /\ \A r \in DOMAIN result.output.rows :
              IsNull(r["tip_percentage"]) <=>
                  /\ IsNull(r["tip_amount"])
                  /\ ~IsNull(r["total_amount"])
                  /\ RatLT(Dbl(0), r["total_amount"][1])

\* total_amount = 0 with tip_amount = 5 gave 0.0, and total 12 with tip 2 gave 50/3
C6_Witness ==
    /\ Returned("add_derived_features")
    /\ HasTipColumns
    /\ \E r \in DOMAIN result.output.rows :
          /\ r["total_amount"] = Num(0) /\ r["tip_amount"] = Num(5)
          /\ r["tip_percentage"] = Num(0)
    /\ \E r \in DOMAIN result.output.rows :
          /\ r["total_amount"] = Num(12) /\ r["tip_amount"] = Num(2)
          /\ r["tip_percentage"] = Some(<<50, 3>>)

\* C7: for every trip_distance >= 0, trip_length_category is short below 2.0,
\* medium from 2.0 to below 5.0, and long from 5.0 on
C7_CategoryPartition ==
    (Called("add_derived_features") /\ "trip_distance" \in result.input.cols) =>
        /\ result.raised = "none"
        /\ Count(result.output) = Count(result.input)
        /\ \A r \in DOMAIN result.output.rows :
              (~IsNull(r["trip_distance"]) /\ RatLE(Dbl(0), r["trip_distance"][1])) =>
                 LET x == r["trip_distance"][1]
                 IN  /\ r["trip_length_category"] \in {Some("short"), Some("medium"), Some("long")}
                     /\ RatLT(x, Dbl(2)) <=> r["trip_length_category"] = Some("short")
                     /\ (RatLE(Dbl(2), x) /\ RatLT(x, Dbl(5)))
                            <=> r["trip_length_category"] = Some("medium")
                     /\ RatLE(Dbl(5), x) <=> r["trip_length_category"] = Some("long")

\* distances of exactly 2.0 and 5.0 were categorised medium and long
C7_Witness ==
    /\ Returned("add_derived_features")
    /\ \E r \in DOMAIN result.output.rows :
          r["trip_distance"] = Num(2) /\ r["trip_length_category"] = Some("medium")
    /\ \E r \in DOMAIN result.output.rows :
          r["trip_distance"] = Num(5) /\ r["trip_length_category"] = Some("long")

\* the required names absent from the schema, in the order of the required list
AbsentRequired ==
    SelectSeq(result.args, LAMBDA c : c \notin result.input.cols)

\* C10: validate_required_columns raises an error reporting exactly the required
\* names absent from the schema, in the order of the required list, whenever
\* one is absent, and otherwise returns the record set unchanged
C10_RequiredColumns ==
    Called("validate_required_columns") =>
        /\ AbsentRequired # <<>> =>
              /\ result.raised = "ValueError"
              /\ result.missing = AbsentRequired
        /\ AbsentRequired = <<>> =>
              /\ result.raised = "none"
              /\ result.output = result.input
              /\ df = result.input

\* the first and the last of three required names were absent and reported
C10_Witness ==
    /\ Called("validate_required_columns")
    /\ result.raised = "ValueError"
    /\ result.missing = <<"tip_amount", "trip_distance">>
    /\ Count(result.input) > 0

-----------------------------------------------------------------------------
(* Aggregation: df.groupBy(key).agg(...).orderBy(...)                      *)

\* the per-row expression an aggregate is taken over: a column, or the tip
\* percentage expression of revenue_insights.py (lines 130 and 144)
tip_percentage_expr == "when(total_amount > 0, tip_amount / total_amount * 100.0).otherwise(0.0)"

ExprColumns(e) ==
    IF e = "*" THEN {}
    ELSE IF e = tip_percentage_expr THEN {"tip_amount", "total_amount"}
    ELSE {e}

\* mutant: the tip percentage is taken without the guard on total_amount
ExprValue_NoGuard(r, e) ==
    IF e = tip_percentage_expr
    THEN Times(Divide(r["tip_amount"], r["total_amount"]), Num(100))
    ELSE r[e]

ExprValue(r, e) ==
    IF e = tip_percentage_expr
    THEN WhenOtherwise(Gt(r["total_amount"], Num(0)),
                       Times(Divide(r["tip_amount"], r["total_amount"]), Num(100)),
                       Num(0))
    ELSE r[e]

\* sum and number of the non-null values of e over the rows S of the bag B
RECURSIVE SumAndCount(_, _, _)
SumAndCount(S, B, e) ==
    IF S = {} THEN <<Dbl(0), 0>>
    ELSE LET x == CHOOSE y \in S : TRUE
             rest == SumAndCount(S \ {x}, B, e)
             v == ExprValue(x, e)
         IN  IF IsNull(v) THEN rest
             ELSE <<RatAdd(rest[1], RatMul(v[1], Dbl(B[x]))), rest[2] + B[x]>>

\* count("*") counts rows; sum and avg skip nulls and are NULL over no values
sum(B, e) ==
    LET sc == SumAndCount(DOMAIN B, B, e)
    IN  IF sc[2] = 0 THEN NULL ELSE Some(sc[1])
avg(B, e) ==
    LET sc == SumAndCount(DOMAIN B, B, e)
    IN  IF sc[2] = 0 THEN NULL ELSE Some(Rat(sc[1][1], sc[1][2] * sc[2]))
count(B, e) == Num(BagCardinality(B))

Aggregate(a, B) ==
    CASE a.fn = "count" -> count(B, a.of)
      [] a.fn = "sum" -> sum(B, a.of)
      [] a.fn = "avg" -> avg(B, a.of)

Agg(alias, fn, of) == [alias |-> alias, fn |-> fn, of |-> of]

\* the rows of the group whose key is k (nulls form one group)
Group(d, key, k) == [r \in {x \in DOMAIN d.rows : x[key] = k} |-> d.rows[r]]

SeqRange(s) == {s[i] : i \in DOMAIN s}

\* df.groupBy(key).agg(aggs): one row for each distinct value of the key
GroupByAgg(d, key, aggs) ==
    LET keys == {r[key] : r \in DOMAIN d.rows}
        names == {key} \cup {aggs[i].alias : i \in DOMAIN aggs}
        AggOf(name) == aggs[CHOOSE i \in DOMAIN aggs : aggs[i].alias = name]
        row(k) == [c \in names |->
                      IF c = key THEN k ELSE Aggregate(AggOf(c), Group(d, key, k))]
    IN  DataFrame(names, SetToBag({row(k) : k \in keys}))

\* the columns a groupBy(key).agg(aggs) has to resolve
Needed(key, aggs) ==
    {key} \cup UNION {ExprColumns(aggs[i].of) : i \in DOMAIN aggs}

\* the order of strings, for the values the model sorts
StringRank(x) ==
    CASE x = "long" -> 1
      [] x = "medium" -> 2
      [] x = "short" -> 3

\* a before-or-equal b under orderBy: ascending puts nulls first, descending last
InOrder(a, b, descending, strings) ==
    IF descending
    THEN IsNull(b) \/ (~IsNull(a) /\ RatLE(b[1], a[1]))
    ELSE IsNull(a) \/ (~IsNull(b) /\
            IF strings THEN StringRank(a[1]) <= StringRank(b[1])
            ELSE RatLE(a[1], b[1]))

\* orderBy(by): every arrangement of the rows the sort may produce (rows that
\* tie on the sort column come out in either order)
orderBy(d, by, descending, strings) ==
    LET rs == DOMAIN d.rows
        n == Cardinality(rs)
    IN  {s \in [1..n -> rs] :
            /\ SeqRange(s) = rs
            /\ \A i \in 1..n : \A j \in 1..n :
                  i < j => InOrder(s[i][by], s[j][by], descending, strings)}

-----------------------------------------------------------------------------
(* The cleaned set the aggregation jobs read                               *)

MaxAggRows == 2

AggBaseRow ==
    BaseRow @@ [VendorID |-> Num(1), congestion_surcharge |-> Some(Rat(5, 2))]

AggVary(changes) ==
    [c \in DOMAIN AggBaseRow |->
        IF c \in DOMAIN changes THEN changes[c] ELSE AggBaseRow[c]]

\* trips the cleaning job keeps, differing in hour, day, month, zone, payment
\* type, tip, total, vendor and surcharge
AggRawRows ==
    {AggBaseRow,
     AggVary([tpep_pickup_datetime  |-> Dt(2025, 1, 1, 9, 0, 0, 0),
              tpep_dropoff_datetime |-> Dt(2025, 1, 1, 9, 20, 0, 0),
              PULocationID |-> Num(1), payment_type |-> Num(2),
              tip_amount |-> Num(0), total_amount |-> Num(10)]),
     AggVary([tpep_pickup_datetime  |-> Dt(2025, 2, 2, 9, 0, 0, 0),
              tpep_dropoff_datetime |-> Dt(2025, 2, 2, 9, 30, 0, 0),
              trip_distance |-> Num(20), fare_amount |-> Num(40),
              total_amount |-> Num(50), tip_amount |-> Num(10)]),
     AggVary([fare_amount |-> Num(11), tip_amount |-> NULL,
              payment_type |-> NULL, PULocationID |-> NULL]),
     AggVary([fare_amount |-> Num(0), total_amount |-> Num(0),
              tip_amount |-> Num(5)]),
     AggVary([fare_amount |-> Num(13), VendorID |-> Num(2),
              congestion_surcharge |-> Num(0), payment_type |-> Num(2)])}

AggRawSets ==
    {DataFrame(DOMAIN AggBaseRow, b) : b \in BagsUpTo(AggRawRows, MaxAggRows)}

\* what the cleaning job writes for a raw set that has every column it reads
CleanedFrom(raw) ==
    LET a == remove_null_values(standardize_column_names(raw), critical_columns)
        b == validate_trip_duration(calculate_trip_duration(validate_trip_times(a)),
                                    Dbl(1), Dbl(1440))
        c == validate_trip_speed(calculate_trip_speed(b), Dbl(1), Dbl(100))
        e == validate_passenger_count(
                 filter_invalid_trips(c, "fare_amount", "trip_distance"), Dbl(6))
    IN  {add_quality_flags(add_derived_features(add_temporal_features(kept))) :
            kept \in remove_duplicates(e)}

\* columns a cleaned set may have been written without; the jobs test for them
AbsentColumns ==
    {{},
     {"tip_amount", "tip_percentage"},
     {"payment_type"},
     {"pulocationid"},
     {"total_amount"},
     {"pickup_hour", "pickup_day_of_week", "pickup_date"},
     {"pickup_hour", "pickup_day_of_week", "pickup_date",
      "tpep_pickup_datetime", "pickup_ts"},
     {"trip_duration_minutes", "trip_speed_mph"},
     {"pickup_month", "trip_length_category", "vendorid",
      "congestion_surcharge"}}

CleanedSets ==
    {Project(d, d.cols \ absent) :
        d \in UNION {CleanedFrom(raw) : raw \in AggRawSets},
        absent \in AbsentColumns}

-----------------------------------------------------------------------------
(* jobs/trip_metrics_aggregation.py and jobs/revenue_insights.py: main()   *)

MaxRuns == 2

Jobs == {"trip_metrics_aggregation", "revenue_insights"}
output_base == "insights/"

Table(name, key, aggs, by, descending, strings) ==
    [path |-> output_base \o name \o "/", key |-> key, aggs |-> aggs,
     by |-> by, descending |-> descending, strings |-> strings]

NoRun == [ran |-> FALSE, run |-> 0, exit_code |-> -1, written |-> {},
          tables |-> [p \in {} |-> 0]]

Runs == result.runs["trip_metrics_aggregation"] + result.runs["revenue_insights"]

AggInit ==
    /\ pc = "idle"
    /\ df = NoFrame
    /\ \E cleaned \in CleanedSets :
          LET stored == [cols |-> cleaned.cols, rows |-> cleaned.rows,
                         partition_by |-> <<"pickup_year", "pickup_month">>]
          IN  /\ s3 = (output_path :> stored)
              /\ result = [job |-> "none",
                           runs |-> [j \in Jobs |-> 0],
                           cleaned |-> stored,
                           first |-> [j \in Jobs |-> NoRun],
                           written |-> {},
                           sorted |-> [p \in {} |-> <<>>]]
    /\ exit_code = -1
    /\ trace = <<>>

\* spark-submit of one of the jobs: a new process, nothing kept from earlier runs
StartJob ==
    /\ pc \in {"idle", "exit"}
    /\ Runs < MaxRuns
    /\ \E job \in Jobs :
          /\ pc' = job \o ":load_config"
          /\ result' = [result EXCEPT !.job = job, !.runs[job] = @ + 1,
                                      !.written = {},
                                      !.sorted = [p \in {} |-> <<>>]]
    /\ df' = NoFrame
    /\ exit_code' = -1
    /\ trace' = <<>>
    /\ UNCHANGED s3

\* the process ends; the first configured run of each job is remembered so that
\* later runs can be compared with it
JobExit(code, event) ==
    /\ pc' = "exit"
    /\ exit_code' = code
    /\ trace' = Append(trace, event)
    /\ result' = IF event = "config_error" \/ result.first[result.job].ran
                 THEN result
                 ELSE [result EXCEPT !.first[result.job] =
                          [ran |-> TRUE, run |-> Runs, exit_code |-> code,
                           written |-> result.written,
                           tables |-> [p \in result.written |-> s3[p]]]]
    /\ UNCHANGED <<df, s3>>

JobStage(from, to, newdf, events) ==
    /\ pc = from
    /\ pc' = to
    /\ df' = newdf
    /\ trace' = trace \o events
    /\ UNCHANGED <<s3, exit_code, result>>

\* one "if <guard>: table = df.groupBy(..).agg(..).orderBy(..); write_to_s3(table,
\* .., mode="overwrite")" block of a job; a column that does not resolve raises
\* AnalysisException, which nothing catches
WriteTable(from, to, guard, source, t) ==
    /\ pc = from
    /\ IF ~guard
       THEN JobStage(from, to, df, <<"skip " \o t.path>>)
       ELSE IF ~Resolves(source, Needed(t.key, t.aggs))
       THEN JobExit(1, "AnalysisException")
       ELSE LET table == GroupByAgg(source, t.key, t.aggs)
            IN  \E sorted \in orderBy(table, t.by, t.descending, t.strings) :
                   /\ s3' = write_to_s3(s3, table, t.path, "overwrite", <<>>)
                   /\ result' = [result EXCEPT
                         !.written = @ \cup {t.path},
                         !.sorted = [p \in DOMAIN @ \cup {t.path} |->
                                        IF p = t.path THEN sorted ELSE @[p]]]
                   /\ pc' = to
                   /\ trace' = Append(trace, "write " \o t.path)
                   /\ UNCHANGED <<df, exit_code>>

\* lines 25-33 of both jobs
JobLoadConfig(job, to) ==
    /\ pc = job \o ":load_config"
    /\ \E outcome \in ConfigOutcomes :
          IF outcome = "ok"
          THEN JobStage(pc, to, df, <<"load_config">>)
          ELSE JobExit(1, "config_error")

\* spark.read.parquet(input_path); df.count()
JobRead(from, to) ==
    JobStage(from, to, DataFrame(s3[output_path].cols, s3[output_path].rows),
             <<"read", "count">>)

\* ---- trip_metrics_aggregation.py ----

\* lines 46-55
TmTemporal ==
    JobStage("trip_metrics_aggregation:temporal", "trip_volume_by_hour",
        IF "pickup_hour" \notin df.cols /\ "tpep_pickup_datetime" \in df.cols
        THEN LET d1 == WithColumn(df, "pickup_ts",
                          LAMBDA r : to_timestamp(r["tpep_pickup_datetime"]))
                 d2 == WithColumn(d1, "pickup_hour", LAMBDA r : hour(r["pickup_ts"]))
                 d3 == WithColumn(d2, "pickup_day_of_week",
                          LAMBDA r : dayofweek(r["pickup_ts"]))
             IN  WithColumn(d3, "pickup_date",
                          LAMBDA r : date_format_ymd(r["pickup_ts"]))
        ELSE df,
        <<"temporal">>)

volume_aggs ==
    <<Agg("trip_count", "count", "*"),
      Agg("avg_distance", "avg", "trip_distance"),
      Agg("avg_fare", "avg", "fare_amount"),
      Agg("avg_total", "avg", "total_amount")>>

duration_aggs ==
    <<Agg("trip_count", "count", "*"),
      Agg("avg_duration_minutes", "avg", "trip_duration_minutes"),
      Agg("avg_distance", "avg", "trip_distance")>>

\* mutant: the table is ordered by pickup_hour descending
trip_volume_by_hour_Descending ==
    Table("trip_volume_by_hour", "pickup_hour", volume_aggs,
          "pickup_hour", TRUE, FALSE)

trip_volume_by_hour ==
    Table("trip_volume_by_hour", "pickup_hour", volume_aggs,
          "pickup_hour", FALSE, FALSE)
trip_volume_by_day ==
    Table("trip_volume_by_day", "pickup_day_of_week", volume_aggs,
          "pickup_day_of_week", FALSE, FALSE)
trip_volume_by_zone ==
    Table("trip_volume_by_zone", "pulocationid", volume_aggs,
          "trip_count", TRUE, FALSE)
duration_by_hour ==
    Table("trip_duration_by_hour", "pickup_hour", duration_aggs,
          "pickup_hour", FALSE, FALSE)
duration_by_zone ==
    Table("trip_duration_by_zone", "pulocationid", duration_aggs,
          "trip_count", TRUE, FALSE)
speed_by_hour ==
    Table("trip_speed_by_hour", "pickup_hour",
          <<Agg("trip_count", "count", "*"),
            Agg("avg_speed_mph", "avg", "trip_speed_mph"),
            Agg("avg_distance", "avg", "trip_distance")>>,
          "pickup_hour", FALSE, FALSE)
monthly_trends ==
    Table("monthly_trends", "pickup_month",
          volume_aggs \o <<Agg("total_revenue", "sum", "total_amount")>>,
          "pickup_month", FALSE, FALSE)
trips_by_category(d) ==
    Table("trips_by_length_category", "trip_length_category",
          volume_aggs \o
            <<IF "trip_duration_minutes" \in d.cols
              THEN Agg("avg_duration_minutes", "avg", "trip_duration_minutes")
              ELSE Agg("avg_duration_minutes", "count", "*")>>,
          "trip_length_category", FALSE, TRUE)

\* lines 57-69
TmVolumeByHour ==
    WriteTable("trip_volume_by_hour", "trip_volume_by_day", TRUE, df,
               trip_volume_by_hour)
\* lines 71-83
TmVolumeByDay ==
    WriteTable("trip_volume_by_day", "trip_volume_by_zone", TRUE, df,
               trip_volume_by_day)
\* lines 85-98
TmVolumeByZone ==
    WriteTable("trip_volume_by_zone", "trip_duration_by_hour",
               "pulocationid" \in df.cols, df, trip_volume_by_zone)
\* lines 100-112
TmDurationByHour ==
    WriteTable("trip_duration_by_hour", "trip_duration_by_zone",
               "trip_duration_minutes" \in df.cols, df, duration_by_hour)
\* lines 114-126, inside the block of lines 100-112
TmDurationByZone ==
    WriteTable("trip_duration_by_zone", "trip_speed_by_hour",
               "trip_duration_minutes" \in df.cols /\ "pulocationid" \in df.cols,
               df, duration_by_zone)
\* lines 128-141
TmSpeedByHour ==
    WriteTable("trip_speed_by_hour", "monthly_trends",
               "trip_speed_mph" \in df.cols,
               IF "trip_speed_mph" \in df.cols
               THEN Filter(df, LAMBDA r : isNotNull(r["trip_speed_mph"]))
               ELSE df,
               speed_by_hour)
\* lines 143-157
TmMonthlyTrends ==
    WriteTable("monthly_trends", "trips_by_length_category",
               "pickup_month" \in df.cols, df, monthly_trends)
\* lines 159-173
TmTripsByCategory ==
    WriteTable("trips_by_length_category", "trip_metrics_aggregation:stop",
               "trip_length_category" \in df.cols, df, trips_by_category(df))

\* lines 175-177
TmStop ==
    /\ pc = "trip_metrics_aggregation:stop"
    /\ JobExit(0, "stop")

\* ---- revenue_insights.py ----

\* lines 42-46
RvParsePickup ==
    JobStage("revenue_insights:parse", "revenue_by_payment_type",
        IF "tpep_pickup_datetime" \in df.cols
        THEN LET d1 == WithColumn(df, "pickup_ts",
                          LAMBDA r : to_timestamp(r["tpep_pickup_datetime"]))
             IN  WithColumn(d1, "pickup_hour", LAMBDA r : hour(r["pickup_ts"]))
        ELSE df,
        <<"parse">>)

revenue_aggs ==
    <<Agg("trip_count", "count", "*"),
      Agg("total_fare", "sum", "fare_amount"),
      Agg("avg_fare", "avg", "fare_amount"),
      Agg("total_tip", "sum", "tip_amount"),
      Agg("avg_tip", "avg", "tip_amount"),
      Agg("total_revenue", "sum", "total_amount"),
      Agg("avg_total", "avg", "total_amount")>>

fare_revenue_aggs ==
    <<Agg("trip_count", "count", "*"),
      Agg("total_fare", "sum", "fare_amount"),
      Agg("avg_fare", "avg", "fare_amount"),
      Agg("total_revenue", "sum", "total_amount"),
      Agg("avg_total", "avg", "total_amount")>>

revenue_by_payment_type ==
    Table("revenue_by_payment_type", "payment_type", revenue_aggs,
          "total_revenue", TRUE, FALSE)
revenue_by_time ==
    Table("revenue_by_time", "pickup_hour", revenue_aggs,
          "pickup_hour", FALSE, FALSE)
congestion_col(d) ==
    IF "congestion_surcharge" \in d.cols THEN "congestion_surcharge" ELSE "extra"
congestion_fee_analysis(d) ==
    Table("congestion_fee_analysis", congestion_col(d),
          fare_revenue_aggs \o
            <<Agg("total_congestion_fee", "sum", congestion_col(d))>>,
          "total_congestion_fee", TRUE, FALSE)
revenue_by_vendor ==
    Table("revenue_by_vendor", "vendorid", fare_revenue_aggs,
          "total_revenue", TRUE, FALSE)
tip_analysis ==
    Table("tip_analysis", "payment_type",
          <<Agg("trip_count", "count", "*"),
            Agg("total_tips", "sum", "tip_amount"),
            Agg("avg_tip", "avg", "tip_amount"),
            Agg("avg_total", "avg", "total_amount"),
            Agg("avg_tip_percentage", "avg", tip_percentage_expr)>>,
          "total_tips", TRUE, FALSE)
tip_by_time ==
    Table("tip_by_time", "pickup_hour",
          <<Agg("trip_count", "count", "*"),
            Agg("total_tips", "sum", "tip_amount"),
            Agg("avg_tip", "avg", "tip_amount"),
            Agg("avg_tip_percentage", "avg", tip_percentage_expr)>>,
          "pickup_hour", FALSE, FALSE)

\* lines 48-64
RvRevenueByPaymentType ==
    WriteTable("revenue_by_payment_type", "revenue_by_time",
               "payment_type" \in df.cols, df, revenue_by_payment_type)
\* lines 66-82
RvRevenueByTime ==
    WriteTable("revenue_by_time", "congestion_fee_analysis",
               "pickup_hour" \in df.cols, df, revenue_by_time)
\* lines 84-103
RvCongestionFeeAnalysis ==
    WriteTable("congestion_fee_analysis", "revenue_by_vendor",
               "congestion_surcharge" \in df.cols \/ "extra" \in df.cols,
               df, congestion_fee_analysis(df))
\* lines 105-119
RvRevenueByVendor ==
    WriteTable("revenue_by_vendor", "tip_analysis",
               "vendorid" \in df.cols, df, revenue_by_vendor)
\* lines 121-135
RvTipAnalysis ==
    WriteTable("tip_analysis", "tip_by_time",
               "tip_amount" \in df.cols /\ "total_amount" \in df.cols,
               df, tip_analysis)
\* lines 137-150
RvTipByTime ==
    WriteTable("tip_by_time", "revenue_insights:stop",
               "tip_amount" \in df.cols /\ "pickup_hour" \in df.cols,
               df, tip_by_time)

\* lines 152-154
RvStop ==
    /\ pc = "revenue_insights:stop"
    /\ JobExit(0, "stop")

TmLoadConfig ==
    JobLoadConfig("trip_metrics_aggregation", "trip_metrics_aggregation:read")
TmRead ==
    JobRead("trip_metrics_aggregation:read", "trip_metrics_aggregation:temporal")
RvLoadConfig ==
    JobLoadConfig("revenue_insights", "revenue_insights:read")
RvRead ==
    JobRead("revenue_insights:read", "revenue_insights:parse")

AggNext ==
    \/ StartJob
    \/ TmLoadConfig
    \/ TmRead
    \/ TmTemporal
    \/ TmVolumeByHour
    \/ TmVolumeByDay
    \/ TmVolumeByZone
    \/ TmDurationByHour
    \/ TmDurationByZone
    \/ TmSpeedByHour
    \/ TmMonthlyTrends
    \/ TmTripsByCategory
    \/ TmStop
    \/ RvLoadConfig
    \/ RvRead
    \/ RvParsePickup
    \/ RvRevenueByPaymentType
    \/ RvRevenueByTime
    \/ RvCongestionFeeAnalysis
    \/ RvRevenueByVendor
    \/ RvTipAnalysis
    \/ RvTipByTime
    \/ RvStop

SpecAgg == AggInit /\ [][AggNext]_vars

-----------------------------------------------------------------------------
(* Properties of the aggregation jobs                                      *)

\* the job has ended, and its summary computations were reached
Aggregated ==
    /\ pc = "exit"
    /\ result.job \in Jobs
    /\ Len(trace) > 0
    /\ trace[1] = "load_config"

\* an earlier run of the same job over the same cleaned set is on record
RanBefore ==
    /\ Aggregated
    /\ result.first[result.job].ran
    /\ result.first[result.job].run < Runs

\* C9: when an aggregation job is run again over the same cleaned set, it ends
\* the same way, writes the same summary tables, each holding the same aggregate
\* rows as after the earlier run, and the cleaned set is as it was
C9_AggregationIdempotent ==
    RanBefore =>
        LET first == result.first[result.job]
        IN  /\ exit_code = first.exit_code
            /\ result.written = first.written
            /\ \A p \in first.written :
                  /\ s3[p].cols = first.tables[p].cols
                  /\ s3[p].rows = first.tables[p].rows
            /\ s3[output_path] = result.cleaned

\* a second run that wrote a summary table of two groups or more
C9_Witness ==
    /\ RanBefore
    /\ exit_code = 0
    /\ \E p \in result.written : Cardinality(DOMAIN s3[p].rows) >= 2

-----------------------------------------------------------------------------
(* Further properties of the cleaning job                                  *)

Events == SeqRange(trace)

\* what the trace shows of the stages after the schema check
TransformationStages ==
    {"standardize_column_names", "remove_null_values", "validate_trip_times",
     "calculate_trip_duration", "validate_trip_duration", "calculate_trip_speed",
     "validate_trip_speed", "filter_invalid_trips", "validate_passenger_count",
     "remove_duplicates", "add_temporal_features", "add_derived_features",
     "add_quality_flags"}

\* a field of critical_columns is not a column of the raw set
RequiredFieldAbsent == ~(SeqToSet(critical_columns) \subseteq RawInput.cols)
ConfigFailed == "config_error" \in Events

NothingTransformedOrWritten ==
    /\ Events \cap TransformationStages = {}
    /\ "write_to_s3" \notin Events
    /\ output_path \notin DOMAIN s3

\* C11: when a required field is absent from the raw schema, or the bucket
\* configuration fails to load or is empty, the cleaning job runs no
\* transformation stage, writes nothing, and ends with exit status 1
C11_FatalErrorsAbort ==
    (RequiredFieldAbsent \/ ConfigFailed) =>
        /\ NothingTransformedOrWritten
        /\ pc \in {"load_config", "read", "validate_required_columns", "exit"}
        /\ pc = "exit" => exit_code = 1

\* the job ended at the schema check, over a raw set that has rows
C11_Witness ==
    /\ RequiredFieldAbsent
    /\ ~ConfigFailed
    /\ pc = "exit"
    /\ exit_code = 1
    /\ trace = <<"load_config", "read", "count", "validate_required_columns">>
    /\ Count(RawInput) > 0

\* the stages of main in the order documented, and then the write
StageOrder ==
    <<"validate_required_columns", "standardize_column_names", "remove_null_values",
      "validate_trip_times", "calculate_trip_duration", "validate_trip_duration",
      "calculate_trip_speed", "validate_trip_speed", "filter_invalid_trips",
      "validate_passenger_count", "remove_duplicates", "add_temporal_features",
      "add_derived_features", "add_quality_flags", "write_to_s3">>

IsStageEvent(e) == e \in SeqToSet(StageOrder)

\* the stages run so far, in the order they ran
StagesRun == SelectSeq(trace, IsStageEvent)

\* C14: in a run of the cleaning job that reaches the sink every stage has run
\* exactly once, in the documented order, with the write last; when speed is
\* about to be derived trip_duration_minutes exists, and when the temporal
\* features are about to be added pickup_ts exists
C14_StageOrder ==
    /\ "write_to_s3" \in Events => StagesRun = StageOrder
    /\ output_path \in DOMAIN s3 => "write_to_s3" \in Events
    /\ pc = "calculate_trip_speed" => "trip_duration_minutes" \in df.cols
    /\ pc = "add_temporal_features" => "pickup_ts" \in df.cols

\* a run that reached the sink with a row
C14_Witness ==
    /\ Completed
    /\ "write_to_s3" \in Events
    /\ Count(Written) > 0

\* the trip of BaseRow with trip_distance = 0.0: fare 10.0, ten minutes, one
\* passenger
ZeroDistanceTrip == Vary([trip_distance |-> Num(0)])

HasZeroDistanceTrip ==
    /\ RawInput.cols = FullSchema
    /\ ZeroDistanceTrip \in DOMAIN RawInput.rows

ZeroDistanceIn(d) == \E r \in DOMAIN d.rows : r["trip_distance"] = Num(0)

\* where control is from the schema check until the speed filter is about to run
UpToSpeedFilter ==
    {"validate_required_columns", "standardize_column_names", "remove_null_values",
     "validate_trip_times", "calculate_trip_duration", "validate_trip_duration",
     "calculate_trip_speed", "validate_trip_speed"}

\* C17 as stated: the trip with distance 0.0 and fare 10.0 survives every stage
\* before filter_invalid_trips and is dropped by that stage
C17_AsClaimed ==
    (HasZeroDistanceTrip /\ pc = "filter_invalid_trips") => ZeroDistanceIn(df)

\* C17: the trip with distance 0.0 and fare 10.0 survives every stage before
\* validate_trip_speed and is dropped by validate_trip_speed, its speed being
\* 0 mph; filter_invalid_trips, the next stage, does not get to see it
C17_ZeroDistanceDroppedBySpeedFilter ==
    HasZeroDistanceTrip =>
        /\ pc \in UpToSpeedFilter => ZeroDistanceIn(df)
        /\ pc = "validate_trip_speed" =>
              \A r \in DOMAIN df.rows :
                  r["trip_distance"] = Num(0) => r["trip_speed_mph"] = Num(0)
        /\ pc \notin UpToSpeedFilter => ~ZeroDistanceIn(df)

\* the speed filter has just dropped the trip and kept another
C17_Witness ==
    /\ HasZeroDistanceTrip
    /\ pc = "filter_invalid_trips"
    /\ Count(RawInput) = 2
    /\ Count(df) = 1

\* the trip of BaseRow is in the raw set, which has every column
HasBaseTrip ==
    /\ RawInput.cols = FullSchema
    /\ BaseRow \in DOMAIN RawInput.rows

\* r is what the pipeline made of the trip of BaseRow
FromBaseTrip(r) == \A c \in DOMAIN BaseRow : r[LowerName(c)] = BaseRow[c]

\* the time from pickup_ts to dropoff_ts in tenths of a second (the timestamps
\* the model uses are whole tenths), and in whole seconds
TenthsBetween(p, d) ==
    (Secs(d) - Secs(p)) * 10 + (Micros(d) - Micros(p)) \div 100000
SecondsBetween(p, d) == Secs(d) - Secs(p)

\* another raw row is the same trip to remove_duplicates, which then keeps
\* either of the two
BaseTripHasTwin ==
    \E x \in DOMAIN RawInput.rows :
        /\ x # BaseRow
        /\ \A c \in DOMAIN BaseRow :
              LowerName(c) \in key_columns => x[c] = BaseRow[c]

\* what C18 says of the trip of BaseRow: it is kept (or its twin is), with these
\* values
BaseTripAsExpected ==
    (Completed /\ HasBaseTrip) =>
        /\ ~BaseTripHasTwin => \E r \in Survivors : FromBaseTrip(r)
        /\ \E r \in Survivors : \A c \in DOMAIN BaseRow :
              LowerName(c) \in key_columns => r[LowerName(c)] = BaseRow[c]
        /\ \A r \in Survivors :
              FromBaseTrip(r) =>
                  /\ r["trip_duration_minutes"] = Num(10)
                  /\ r["trip_speed_mph"] = Num(18)
                  /\ r["tip_percentage"] = Some(Rat(100 * 2, 12))
                  /\ r["trip_length_category"] = Some("medium")

SpeedFromDuration ==
    Completed =>
        \A r \in Survivors :
            r["trip_speed_mph"] =
                Divide(Times(r["trip_distance"], Num(60)), r["trip_duration_minutes"])

\* C18 as stated: the trip of BaseRow is kept with duration 10.0, speed 18.0,
\* tip percentage 100*2/12 and category medium, and for every kept row the
\* duration is dropoff - pickup in minutes and the speed distance * 60 / duration
C18_AsClaimed ==
    /\ BaseTripAsExpected
    /\ SpeedFromDuration
    /\ Completed =>
          \A r \in Survivors :
              r["trip_duration_minutes"] =
                  Some(Rat(TenthsBetween(r["pickup_ts"], r["dropoff_ts"]), 600))

\* C18: the trip of BaseRow is kept with duration 10.0, speed 18.0, tip
\* percentage 100*2/12 and category medium, and for every kept row the duration
\* is the whole seconds of dropoff minus the whole seconds of pickup, in
\* minutes, and the speed is distance * 60 / duration
C18_BaseTripValues ==
    /\ BaseTripAsExpected
    /\ SpeedFromDuration
    /\ Completed =>
          \A r \in Survivors :
              r["trip_duration_minutes"] =
                  Some(Rat(SecondsBetween(r["pickup_ts"], r["dropoff_ts"]), 60))

\* the trip of BaseRow was kept, and with it a trip of ten minutes and a half
\* second
C18_Witness ==
    /\ Completed
    /\ HasBaseTrip
    /\ \E r \in Survivors : FromBaseTrip(r)
    /\ \E r \in Survivors : Micros(r["dropoff_ts"]) # Micros(r["pickup_ts"])

\* what the trace shows of work over the rows: a count, a filter, a derivation
RowLevelWork == {"count"} \cup TransformationStages

\* C12: the required-field check runs once, and no row count, filter or
\* derivation over the rows is executed before it has been evaluated
C12_AsClaimed ==
    /\ Cardinality({i \in DOMAIN trace : trace[i] = "validate_required_columns"}) <= 1
    /\ \A i \in DOMAIN trace :
          trace[i] \in RowLevelWork =>
              \E j \in DOMAIN trace : j < i /\ trace[j] = "validate_required_columns"

-----------------------------------------------------------------------------
(* Further properties of the aggregation jobs                              *)

\* the summary tables of a job over the frame d
JobTables(job, d) ==
    IF job = "trip_metrics_aggregation"
    THEN {trip_volume_by_hour, trip_volume_by_day, trip_volume_by_zone,
          duration_by_hour, duration_by_zone, speed_by_hour, monthly_trends,
          trips_by_category(d)}
    ELSE {revenue_by_payment_type, revenue_by_time, congestion_fee_analysis(d),
          revenue_by_vendor, tip_analysis, tip_by_time}

\* every column the table groups by or aggregates is a column of d
Computable(t, d) == Needed(t.key, t.aggs) \subseteq d.cols

\* C13: a run of an aggregation job is never aborted by an absent column: it
\* ends with status 0, having written every summary table whose columns are
\* present and skipped exactly those with a column absent
C13_AsClaimed ==
    Aggregated =>
        /\ exit_code = 0
        /\ "AnalysisException" \notin Events
        /\ \A t \in JobTables(result.job, df) :
              Computable(t, df) <=> t.path \in result.written

-----------------------------------------------------------------------------
(* Further properties of the functions called directly                     *)

\* the row of the argument as validate_trip_times returns it, if it keeps it
WithParsedTimes(r) ==
    RowWith(RowWith(r, "pickup_ts", to_timestamp(r["tpep_pickup_datetime"])),
            "dropoff_ts", to_timestamp(r["tpep_dropoff_datetime"]))

\* the validity ceiling, 2025-12-31 23:59:59
Ceiling == to_timestamp(NoFutureCutoff)

\* both strings parse and the dropoff is strictly after the pickup
ParsedAndOrdered(r) ==
    LET x == WithParsedTimes(r)
    IN  /\ ~IsNull(x["pickup_ts"]) /\ ~IsNull(x["dropoff_ts"])
        /\ TsGt(x["dropoff_ts"], x["pickup_ts"]) = Some(TRUE)

\* t is at or before the ceiling
AtOrBeforeCeiling(t) == TsGt(t, Ceiling) = Some(FALSE)
\* t, cut to whole seconds, is at or before the ceiling
SecondAtOrBeforeCeiling(t) == Secs(t) <= Secs(Ceiling)

ValidAsClaimed(r) ==
    /\ ParsedAndOrdered(r)
    /\ AtOrBeforeCeiling(WithParsedTimes(r)["pickup_ts"])
    /\ AtOrBeforeCeiling(WithParsedTimes(r)["dropoff_ts"])

ValidToTheSecond(r) ==
    /\ ParsedAndOrdered(r)
    /\ SecondAtOrBeforeCeiling(WithParsedTimes(r)["pickup_ts"])
    /\ SecondAtOrBeforeCeiling(WithParsedTimes(r)["dropoff_ts"])

TimesValidated == Returned("validate_trip_times")

\* the output holds the rows of valid, each as often as the input, with the two
\* parsed columns added and nothing else: no other row, no flag column
KeepsExactly(valid) ==
    /\ result.output.cols = result.input.cols \cup {"pickup_ts", "dropoff_ts"}
    /\ DOMAIN result.output.rows =
          {WithParsedTimes(r) : r \in valid}
    /\ \A r \in valid :
          result.output.rows[WithParsedTimes(r)] = result.input.rows[r]

\* C15 as stated: a row is kept if and only if both strings parse, the dropoff
\* is strictly after the pickup, and pickup and dropoff are at or before
\* 2025-12-31 23:59:59
C15_AsClaimed ==
    TimesValidated =>
        KeepsExactly({r \in DOMAIN result.input.rows : ValidAsClaimed(r)})

\* C15: validate_trip_times keeps a row if and only if both strings parse, the
\* dropoff is strictly after the pickup, and pickup and dropoff, cut to whole
\* seconds, are at or before 2025-12-31 23:59:59; every other row is dropped,
\* and no row is flagged
C15_TripTimesFilter ==
    TimesValidated =>
        KeepsExactly({r \in DOMAIN result.input.rows : ValidToTheSecond(r)})

\* a call that kept a trip ending half a second after the ceiling and dropped
\* another
C15_Witness ==
    /\ TimesValidated
    /\ Count(result.input) = 2
    /\ Count(result.output) = 1
    /\ \E r \in DOMAIN result.output.rows :
          /\ Secs(r["dropoff_ts"]) = Secs(Ceiling)
          /\ Micros(r["dropoff_ts"]) > 0

\* the listed columns in the opposite order
Reversed(columns) ==
    [i \in 1..Len(columns) |-> columns[Len(columns) + 1 - i]]

\* C16: remove_null_values, given columns of the set, raises nothing and
\* returns the set without the rows in which a listed column is null: the
\* columns are as they were, every other row is there as often as before, and
\* the listed columns in the opposite order give the same result
C16_NullRowsDropped ==
    Called("remove_null_values") =>
        LET listed == SeqToSet(result.args)
            complete == {r \in DOMAIN result.input.rows :
                            \A c \in listed : ~IsNull(r[c])}
        IN  /\ listed \subseteq result.input.cols => result.raised = "none"
            /\ result.raised = "none" =>
                  /\ result.output.cols = result.input.cols
                  /\ DOMAIN result.output.rows = complete
                  /\ \A r \in complete :
                        result.output.rows[r] = result.input.rows[r]
                  /\ result.output =
                        remove_null_values(result.input, Reversed(result.args))

\* a call with two columns listed that dropped a row for a null in the second
\* column only and kept another row
C16_Witness ==
    /\ Returned("remove_null_values")
    /\ Len(result.args) >= 2
    /\ Count(result.output) = 1
    /\ \E r \in DOMAIN result.input.rows :
          /\ ~IsNull(r[result.args[1]])
          /\ IsNull(r[result.args[2]])

\* the row r with the two flags C20 describes
Flagged(r) ==
    RowWith(RowWith(r, "has_valid_locations",
                    Some(~IsNull(r["pulocationid"]) /\ ~IsNull(r["dolocationid"]))),
            "has_valid_payment", Some(~IsNull(r["payment_type"])))

\* C20: add_quality_flags returns every row of its argument, as often as it is
\* there and with every column as it was, plus has_valid_locations (both zone
\* ids are not null) and has_valid_payment (payment_type is not null), each
\* true or false and never null
C20_QualityFlagsOnlyAdd ==
    Returned("add_quality_flags") =>
        /\ result.output.cols =
              result.input.cols \cup {"has_valid_locations", "has_valid_payment"}
        /\ Count(result.output) = Count(result.input)
        /\ DOMAIN result.output.rows = {Flagged(r) : r \in DOMAIN result.input.rows}
        /\ \A r \in DOMAIN result.input.rows :
              result.output.rows[Flagged(r)] = result.input.rows[r]
        /\ \A x \in DOMAIN result.output.rows :
              /\ x["has_valid_locations"] \in {Some(TRUE), Some(FALSE)}
              /\ x["has_valid_payment"] \in {Some(TRUE), Some(FALSE)}

\* a call over a row with a null zone id and a row with a null payment type
C20_Witness ==
    /\ Returned("add_quality_flags")
    /\ Count(result.output) = 2
    /\ \E x \in DOMAIN result.output.rows :
          /\ x["has_valid_locations"] = Some(FALSE)
          /\ x["has_valid_payment"] = Some(TRUE)
    /\ \E x \in DOMAIN result.output.rows :
          /\ x["has_valid_locations"] = Some(TRUE)
          /\ x["has_valid_payment"] = Some(FALSE)

-----------------------------------------------------------------------------
(* The summary tables                                                      *)

\* this run of trip_metrics_aggregation has written trip_volume_by_hour
VolumeByHourWritten ==
    /\ result.job = "trip_metrics_aggregation"
    /\ trip_volume_by_hour.path \in result.written

VolumeByHour == s3[trip_volume_by_hour.path]
VolumeByHourSorted == result.sorted[trip_volume_by_hour.path]

\* how many rows of the cleaned set have pickup_hour h
TripsInHour(h) ==
    BagCardinality([r \in {x \in DOMAIN df.rows : x["pickup_hour"] = h} |->
                       df.rows[r]])

\* C19: trip_volume_by_hour has exactly one row for each distinct pickup_hour
\* of the cleaned set, its trip_count is the number of cleaned rows of that
\* hour, and the rows are written in ascending order of pickup_hour
C19_VolumeByHour ==
    VolumeByHourWritten =>
        LET hours == {r["pickup_hour"] : r \in DOMAIN df.rows}
            rows == DOMAIN VolumeByHour.rows
            n == Len(VolumeByHourSorted)
        IN  /\ {x["pickup_hour"] : x \in rows} = hours
            /\ Cardinality(rows) = Cardinality(hours)
            /\ \A x \in rows :
                  /\ VolumeByHour.rows[x] = 1
                  /\ x["trip_count"] = Num(TripsInHour(x["pickup_hour"]))
            /\ n = Cardinality(rows)
            /\ SeqRange(VolumeByHourSorted) = rows
            /\ \A i \in 1..n : \A j \in 1..n :
                  i < j =>
                      \/ IsNull(VolumeByHourSorted[i]["pickup_hour"])
                      \/ /\ ~IsNull(VolumeByHourSorted[j]["pickup_hour"])
                         /\ RatLT(VolumeByHourSorted[i]["pickup_hour"][1],
                                  VolumeByHourSorted[j]["pickup_hour"][1])

\* the table was written with a row for hour 8 and a row for hour 9
C19_Witness ==
    /\ VolumeByHourWritten
    /\ Len(VolumeByHourSorted) = 2
    /\ VolumeByHourSorted[1]["pickup_hour"] = Num(8)
    /\ VolumeByHourSorted[2]["pickup_hour"] = Num(9)
    /\ VolumeByHourSorted[1]["trip_count"] = Num(1)

-----------------------------------------------------------------------------
(* The cleaning job over schemas without optional fields                   *)

\* C21: when the raw schema has the six minimal fields, whatever optional
\* fields it lacks, the cleaning job raises nothing: once configured it runs
\* to the write and ends with status 0
C21_AsClaimed ==
    ~RequiredFieldAbsent =>
        /\ "AnalysisException" \notin Events
        /\ (pc = "exit" /\ ~ConfigFailed) =>
              /\ exit_code = 0
              /\ output_path \in DOMAIN s3

-----------------------------------------------------------------------------
(* The temporal features                                                   *)

\* the ISO day of the week of a day counted from 1970-01-01, a Thursday:
\* Monday = 1 ... Sunday = 7
IsoDayOfWeek(days) == ((days + 3) % 7) + 1

\* year, month, day, hour and date of the row are those of its pickup string
ComponentsOfPickup(x) ==
    LET s == x["tpep_pickup_datetime"][1]
    IN  /\ x["pickup_year"] = Num(s[1])
        /\ x["pickup_month"] = Num(s[2])
        /\ x["pickup_day"] = Some(ToString(s[3]))
        /\ x["pickup_hour"] = Num(s[4])
        /\ x["pickup_date"] =
              Some(ToString(s[1]) \o "-" \o Pad2(s[2]) \o "-" \o Pad2(s[3]))

\* what both statements of C22 share
TemporalFeaturesAdded(DayNumber(_)) ==
    Returned("add_temporal_features") =>
        /\ result.output.cols = result.input.cols \cup
              {"pickup_year", "pickup_month", "pickup_day", "pickup_hour",
               "pickup_day_of_week", "pickup_date"}
        /\ Count(result.output) = Count(result.input)
        /\ \A x \in DOMAIN result.output.rows :
              IF IsNull(x["pickup_ts"])
              THEN /\ IsNull(x["pickup_day_of_week"])
                   /\ IsNull(x["pickup_year"]) /\ IsNull(x["pickup_date"])
              ELSE /\ ComponentsOfPickup(x)
                   /\ x["pickup_day_of_week"] =
                         Num(DayNumber(IsoDayOfWeek(Secs(x["pickup_ts"]) \div 86400)))

IsoNumber(iso) == iso
SundayFirstNumber(iso) == (iso % 7) + 1

\* C22 as stated: pickup_day_of_week is the ISO day of the week (Monday = 1 ...
\* Sunday = 7), and year, month, day, hour and date are those of the pickup
C22_AsClaimed == TemporalFeaturesAdded(IsoNumber)

\* C22: pickup_day_of_week numbers the days from Sunday = 1 to Saturday = 7,
\* and year, month, day, hour and date are those of the pickup
C22_TemporalFeatures == TemporalFeaturesAdded(SundayFirstNumber)

\* a call over a Sunday pickup and a Monday pickup: numbered 1 and 2
C22_Witness ==
    /\ Returned("add_temporal_features")
    /\ \E x \in DOMAIN result.output.rows :
          /\ x["tpep_pickup_datetime"] = Dt(2025, 1, 5, 23, 59, 59, 0)
          /\ x["pickup_day_of_week"] = Num(1)
    /\ \E x \in DOMAIN result.output.rows :
          /\ x["tpep_pickup_datetime"] = Dt(2025, 1, 6, 0, 0, 0, 0)
          /\ x["pickup_day_of_week"] = Num(2)

-----------------------------------------------------------------------------
(* The airport flags                                                       *)

BothZoneIds == {"pulocationid", "dolocationid"} \subseteq result.input.cols

\* whether a zone id is a number of the airport set
InAirportSet(z) == ~IsNull(z) /\ z[1] \in airport_zones

\* the flag isin gives for a zone id: null for a null zone id
AirportFlag(z) == IF IsNull(z) THEN NULL ELSE Some(z[1] \in airport_zones)

\* is_airport_trip is there exactly when both flags are, and the call changes
\* no row count
TripFlagOnlyWithBoth ==
    /\ result.raised = "none"
    /\ Count(result.output) = Count(result.input)
    /\ "is_airport_pickup" \in result.output.cols <=> "pulocationid" \in result.input.cols
    /\ "is_airport_dropoff" \in result.output.cols <=> "dolocationid" \in result.input.cols
    /\ "is_airport_trip" \in result.output.cols <=>
          {"is_airport_pickup", "is_airport_dropoff"} \subseteq result.output.cols

\* C23 as stated: with both zone-id columns, each flag is whether the zone id
\* is in {1,2,3} and is_airport_trip is their disjunction, in every row, rows
\* with a null zone id included; is_airport_trip is added only with both flags
C23_AsClaimed ==
    Called("add_derived_features") =>
        /\ TripFlagOnlyWithBoth
        /\ BothZoneIds =>
              \A r \in DOMAIN result.output.rows :
                 /\ r["is_airport_pickup"] = Some(InAirportSet(r["pulocationid"]))
                 /\ r["is_airport_dropoff"] = Some(InAirportSet(r["dolocationid"]))
                 /\ r["is_airport_trip"] =
                       Some(InAirportSet(r["pulocationid"]) \/ InAirportSet(r["dolocationid"]))

\* C23: with both zone-id columns, each flag is whether the zone id is in
\* {1,2,3}, and null for a null zone id; is_airport_trip is true when either
\* zone id is in the set, otherwise null when either zone id is null, otherwise
\* false; is_airport_trip is added only with both flags
C23_AirportFlags ==
    Called("add_derived_features") =>
        /\ TripFlagOnlyWithBoth
        /\ BothZoneIds =>
              \A r \in DOMAIN result.output.rows :
                 LET pu == r["pulocationid"]
                     do == r["dolocationid"]
                     either == InAirportSet(pu) \/ InAirportSet(do)
                 IN  /\ r["is_airport_pickup"] = AirportFlag(pu)
                     /\ r["is_airport_dropoff"] = AirportFlag(do)
                     /\ r["is_airport_trip"] =
                           IF either THEN Some(TRUE)
                           ELSE IF IsNull(pu) \/ IsNull(do) THEN NULL
                           ELSE Some(FALSE)

\* a call over a row with a null pickup zone and dropoff zone 4 (trip flag
\* null) and a row with a null pickup zone and dropoff zone 2 (trip flag true)
C23_Witness ==
    /\ Returned("add_derived_features")
    /\ BothZoneIds
    /\ \E r \in DOMAIN result.output.rows :
          /\ IsNull(r["pulocationid"]) /\ r["dolocationid"] = Num(4)
          /\ IsNull(r["is_airport_pickup"]) /\ r["is_airport_dropoff"] = Some(FALSE)
          /\ IsNull(r["is_airport_trip"])
    /\ \E r \in DOMAIN result.output.rows :
          /\ IsNull(r["pulocationid"]) /\ r["dolocationid"] = Num(2)
          /\ r["is_airport_trip"] = Some(TRUE)

-----------------------------------------------------------------------------
(* The conditional average of the tip tables                               *)

\* this run of revenue_insights has written the table t
TipTableWritten(t) ==
    /\ result.job = "revenue_insights"
    /\ t.path \in result.written

\* the tip percentage of one row: 100 * tip / total where total > 0 (null for
\* a null tip), and 0 otherwise
ResolvedTip(r) ==
    IF ~IsNull(r["total_amount"]) /\ RatLT(Dbl(0), r["total_amount"][1])
    THEN IF IsNull(r["tip_amount"]) THEN NULL
         ELSE Some(RatMul(Dbl(100),
                      Rat(r["tip_amount"][1][1] * r["total_amount"][1][2],
                          r["tip_amount"][1][2] * r["total_amount"][1][1])))
    ELSE Num(0)

\* total of the non-null tip percentages of the rows S of the bag B
RECURSIVE TotalResolved(_, _)
TotalResolved(S, B) ==
    IF S = {} THEN Dbl(0)
    ELSE LET r == CHOOSE y \in S : TRUE
             rest == TotalResolved(S \ {r}, B)
         IN  IF IsNull(ResolvedTip(r)) THEN rest
             ELSE RatAdd(rest, RatMul(ResolvedTip(r)[1], Dbl(B[r])))

\* the rows of the group with a tip percentage
Resolved(G) == [r \in {x \in DOMAIN G : ~IsNull(ResolvedTip(x))} |-> G[r]]

MeanOver(total, n) == Some(Rat(total[1], total[2] * n))

\* avg_tip_percentage of every row of the written table t, given the rows of
\* its group the mean is over
AvgTipPercentageOver(t, Counted(_)) ==
    TipTableWritten(t) =>
        \A x \in DOMAIN s3[t.path].rows :
            LET G == Group(df, t.key, x[t.key])
                n == BagCardinality(Counted(G))
            IN  x["avg_tip_percentage"] =
                    IF n = 0 THEN NULL
                    ELSE MeanOver(TotalResolved(DOMAIN G, G), n)

AllRows(G) == G

\* C24 as stated: avg_tip_percentage of a group is the mean over all rows of
\* the group of the per-row value (100 * tip / total if total > 0, else 0)
C24_AsClaimed ==
    /\ AvgTipPercentageOver(tip_analysis, AllRows)
    /\ AvgTipPercentageOver(tip_by_time, AllRows)

\* C24: avg_tip_percentage of a group is the mean of the per-row value
\* (100 * tip / total if total > 0, else 0) over the rows of the group where
\* that value is not null, rows with total <= 0 counting with value 0; it is
\* null for a group with no such row
C24_ConditionalAverage ==
    /\ AvgTipPercentageOver(tip_analysis, Resolved)
    /\ AvgTipPercentageOver(tip_by_time, Resolved)

\* tip_by_time was written over the hour-8 trips with tip 2 of total 12 and
\* tip 5 of total 0: the average is (50/3 + 0) / 2
C24_Witness ==
    /\ TipTableWritten(tip_by_time)
    /\ \E x \in DOMAIN s3[tip_by_time.path].rows :
          /\ x["pickup_hour"] = Num(8)
          /\ x["trip_count"] = Num(2)
          /\ x["avg_tip_percentage"] = Some(<<25, 3>>)

-----------------------------------------------------------------------------
(* The derived fields of the cleaning job                                  *)

DerivedColumns ==
    {"pickup_year", "pickup_month", "pickup_day", "pickup_hour",
     "pickup_day_of_week", "pickup_date", "trip_duration_minutes",
     "trip_speed_mph", "tip_percentage", "trip_length_category",
     "is_airport_pickup", "is_airport_dropoff", "is_airport_trip",
     "has_valid_locations", "has_valid_payment"}

\* control is past standardize_column_names and before the end
PastNormalisation ==
    pc \in {"remove_null_values", "validate_trip_times", "calculate_trip_duration",
            "validate_trip_duration", "calculate_trip_speed", "validate_trip_speed",
            "filter_invalid_trips", "validate_passenger_count", "remove_duplicates",
            "add_temporal_features", "add_derived_features", "add_quality_flags",
            "write"}

\* one step past normalisation: every column stays, and every row left is a
\* row of before on the columns of before
ColumnsOnlyAdded ==
    (PastNormalisation /\ pc' # pc /\ exit_code' # 1) =>
        /\ df.cols \subseteq df'.cols
        /\ \A out \in DOMAIN df'.rows :
              [c \in df.cols |-> out[c]] \in DOMAIN df.rows
        /\ pc = "write" =>
              /\ s3'[output_path].cols = df.cols
              /\ s3'[output_path].rows = df.rows

\* C25: from normalisation to the write no stage of the cleaning job removes
\* a column or changes the value of one in a row it keeps, so derived columns
\* once added stay as they are and the column set only grows
C25_DerivedAppendOnly == [][ColumnsOnlyAdded]_vars

\* a run that wrote rows with every derived column
C25_Witness ==
    /\ pc = "exit" /\ exit_code = 0
    /\ output_path \in DOMAIN s3
    /\ DerivedColumns \subseteq s3[output_path].cols
    /\ Count(s3[output_path]) > 0

-----------------------------------------------------------------------------
(* The speed of the trips the cleaning job keeps                           *)

\* every row of d has a speed, and it is in [1.0, 100.0]
SpeedKnownAndInRange(d) ==
    \A r \in DOMAIN d.rows :
        /\ ~IsNull(r["trip_speed_mph"])
        /\ RatLE(Dbl(1), r["trip_speed_mph"][1])
        /\ RatLE(r["trip_speed_mph"][1], Dbl(100))

\* C28: in the cleaning job no row comes to validate_trip_speed with a null
\* speed, so the null branch of its filter keeps nothing, and every row after
\* it, and every row written, has a speed in [1.0, 100.0]
C28_SpeedNeverNull ==
    /\ pc = "validate_trip_speed" =>
          \A r \in DOMAIN df.rows :
              /\ ~IsNull(r["trip_distance"])
              /\ ~IsNull(r["trip_duration_minutes"])
              /\ ~IsNull(r["trip_speed_mph"])
    /\ ("trip_speed_mph" \in df.cols /\ pc # "validate_trip_speed") =>
          SpeedKnownAndInRange(df)
    /\ output_path \in DOMAIN s3 => SpeedKnownAndInRange(s3[output_path])

\* a set was written with a trip of exactly 100 mph
C28_Witness ==
    /\ pc = "exit" /\ exit_code = 0
    /\ output_path \in DOMAIN s3
    /\ \E r \in DOMAIN s3[output_path].rows : r["trip_speed_mph"] = Num(100)

-----------------------------------------------------------------------------
(* The choice remove_duplicates leaves to the engine                       *)

\* the six fields that make a trip, as the cleaning job names them
TripKey ==
    {"tpep_pickup_datetime", "tpep_dropoff_datetime", "pulocationid",
     "dolocationid", "trip_distance", "fare_amount"}

\* what main writes when remove_duplicates returns kept (lines 121-138):
\* nothing when add_quality_flags raises
WrittenFrom(kept) ==
    LET enriched == add_derived_features(add_temporal_features(kept))
    IN  IF Resolves(enriched, quality_flag_inputs)
        THEN add_quality_flags(enriched)
        ELSE NoFrame

KeysOf(d) == {KeyOf(r, TripKey \cap d.cols) : r \in DOMAIN d.rows}
PartitionsOf(d) ==
    {KeyOf(r, {"pickup_year", "pickup_month"} \cap d.cols) : r \in DOMAIN d.rows}

\* the two written sets have as many rows, the same columns, the same trip
\* keys and the same partitions, and each row of one has its trip in the other
SameUpToTieBreak(d1, d2) ==
    /\ d1.cols = d2.cols
    /\ Count(d1) = Count(d2)
    /\ KeysOf(d1) = KeysOf(d2)
    /\ PartitionsOf(d1) = PartitionsOf(d2)
    /\ \A r1 \in DOMAIN d1.rows :
          /\ d1.rows[r1] = 1
          /\ \E r2 \in DOMAIN d2.rows :
                \A c \in TripKey \cap d1.cols : r1[c] = r2[c]

\* the step of remove_duplicates: whatever else it could have kept, the run
\* would write as many rows, with the same trip keys and partitions
TieBreakOnlyOutsideKey ==
    (pc = "remove_duplicates" /\ pc' = "add_temporal_features") =>
        \A other \in remove_duplicates(df) :
            SameUpToTieBreak(WrittenFrom(df'), WrittenFrom(other))

\* C29: two runs of the cleaning job over the same input that differ only in
\* the row remove_duplicates keeps among rows of equal key write the same
\* number of rows, the same set of key values and the same pickup_year /
\* pickup_month partitions
C29_DeterministicUpToTieBreak == [][TieBreakOnlyOutsideKey]_vars

\* remove_duplicates is about to choose between rows of one key, and the sets
\* written after the two choices differ
C29_Witness ==
    /\ pc = "remove_duplicates"
    /\ \E k1 \in remove_duplicates(df) : \E k2 \in remove_duplicates(df) :
          /\ Count(k1) < Count(df)
          /\ WrittenFrom(k1) # WrittenFrom(k2)
          /\ Count(WrittenFrom(k1)) > 0

-----------------------------------------------------------------------------
(* The row filters of the cleaning job as one filter                       *)

\* the raw set under the standardized names, with the columns the filters read
\* derived for every row (lines 79, 91, 98 and the parsing of line 87)
RawWithDerivations ==
    LET raw == standardize_column_names(DataFrame(s3[raw_path].cols, s3[raw_path].rows))
        d1 == WithColumn(raw, "pickup_ts",
                  LAMBDA r : to_timestamp(r["tpep_pickup_datetime"]))
        d2 == WithColumn(d1, "dropoff_ts",
                  LAMBDA r : to_timestamp(r["tpep_dropoff_datetime"]))
    IN  calculate_trip_speed(calculate_trip_duration(d2))

\* the conjunction of the conditions of the row filters
PassesAll(x, NotAfterCeiling(_)) ==
    /\ \A c \in SeqToSet(critical_columns) : ~IsNull(x[c])
    /\ ~IsNull(x["pickup_ts"]) /\ ~IsNull(x["dropoff_ts"])
    /\ TsGt(x["dropoff_ts"], x["pickup_ts"]) = Some(TRUE)
    /\ NotAfterCeiling(x["pickup_ts"]) /\ NotAfterCeiling(x["dropoff_ts"])
    /\ InRange(x["trip_duration_minutes"], 1, 1440)
    /\ IsNull(x["trip_speed_mph"]) \/ InRange(x["trip_speed_mph"], 1, 100)
    /\ RatLE(Dbl(0), x["fare_amount"][1])
    /\ RatLT(Dbl(0), x["trip_distance"][1])
    /\ InRange(x["passenger_count"], 0, 6)

\* df holds the raw rows that pass the conjunction, with the derived columns
RowsPassingAll(NotAfterCeiling(_)) ==
    LET all == RawWithDerivations
    IN  /\ df.cols = all.cols
        /\ df.rows = [r \in {x \in DOMAIN all.rows : PassesAll(x, NotAfterCeiling)}
                          |-> all.rows[r]]

\* in main the rows that come to remove_duplicates are those passing the
\* conjunction
MainFiltersAsConjunction ==
    pc = "remove_duplicates" => RowsPassingAll(SecondAtOrBeforeCeiling)

(* The eight calls of lines 82-111 of main in any order that keeps each     *)
(* derivation before what reads it: validate_trip_times (which parses the   *)
(* times) before calculate_trip_duration, that before validate_trip_duration*)
(* and calculate_trip_speed, and that before validate_trip_speed.  pc stays *)
(* at "row_filters", df is the set so far, result.done the calls made.      *)

RowFilterCalls ==
    {"remove_null_values", "validate_trip_times", "calculate_trip_duration",
     "validate_trip_duration", "calculate_trip_speed", "validate_trip_speed",
     "filter_invalid_trips", "validate_passenger_count"}

\* raw sets that pass the schema check: every field, or the six critical ones
OrderInit ==
    /\ pc = "row_filters"
    /\ \E raw \in DataSetsOver(FullSchema, RawRows)
                  \cup DataSetsOver(SeqToSet(critical_columns), FewRawRows) :
          /\ s3 = (raw_path :> [cols |-> raw.cols, rows |-> raw.rows,
                                partition_by |-> <<>>])
          /\ df = standardize_column_names(raw)
    /\ exit_code = -1
    /\ trace = <<>>
    /\ result = [done |-> {}]

\* one of the calls, made once its inputs are there
CallInAnyOrder(call, needs, newdf) ==
    /\ pc = "row_filters"
    /\ call \notin result.done
    /\ needs \subseteq result.done
    /\ df' = newdf
    /\ result' = [done |-> result.done \cup {call}]
    /\ UNCHANGED <<pc, s3, exit_code, trace>>

OrderRemoveNullValues ==
    CallInAnyOrder("remove_null_values", {}, remove_null_values(df, critical_columns))
OrderValidateTripTimes ==
    CallInAnyOrder("validate_trip_times", {}, validate_trip_times(df))
OrderCalculateTripDuration ==
    CallInAnyOrder("calculate_trip_duration", {"validate_trip_times"},
                   calculate_trip_duration(df))
OrderValidateTripDuration ==
    CallInAnyOrder("validate_trip_duration", {"calculate_trip_duration"},
                   validate_trip_duration(df, Dbl(1), Dbl(1440)))
OrderCalculateTripSpeed ==
    CallInAnyOrder("calculate_trip_speed", {"calculate_trip_duration"},
                   calculate_trip_speed(df))
OrderValidateTripSpeed ==
    CallInAnyOrder("validate_trip_speed", {"calculate_trip_speed"},
                   validate_trip_speed(df, Dbl(1), Dbl(100)))
OrderFilterInvalidTrips ==
    CallInAnyOrder("filter_invalid_trips", {},
                   filter_invalid_trips(df, "fare_amount", "trip_distance"))
OrderValidatePassengerCount ==
    CallInAnyOrder("validate_passenger_count", {}, validate_passenger_count(df, Dbl(6)))

OrderNext ==
    \/ OrderRemoveNullValues
    \/ OrderValidateTripTimes
    \/ OrderCalculateTripDuration
    \/ OrderValidateTripDuration
    \/ OrderCalculateTripSpeed
    \/ OrderValidateTripSpeed
    \/ OrderFilterInvalidTrips
    \/ OrderValidatePassengerCount

SpecOrder == OrderInit /\ [][OrderNext]_vars

AllRowFiltersDone == pc = "row_filters" /\ result.done = RowFilterCalls

\* C30 as stated: in the order of main and in every other, the rows left are
\* the raw rows with the six critical fields non-null, dropoff after pickup,
\* pickup and dropoff at or before the ceiling 2025-12-31 23:59:59,
\* 1.0 <= duration <= 1440.0, speed null or in [1.0, 100.0], fare_amount >= 0,
\* trip_distance > 0 and 0 <= passenger_count <= 6
C30_AsClaimed ==
    AllRowFiltersDone => RowsPassingAll(AtOrBeforeCeiling)

\* C30: the same with pickup and dropoff, cut to whole seconds, at or before
\* the ceiling
C30_ConjunctionFilter ==
    AllRowFiltersDone => RowsPassingAll(SecondAtOrBeforeCeiling)

\* the passenger filter and the fare and distance filter ran first, and each
\* dropped one of the two raw trips
C30_Witness ==
    /\ pc = "row_filters"
    /\ result.done = {"validate_passenger_count", "filter_invalid_trips"}
    /\ Count(s3[raw_path]) = 2
    /\ Count(df) = 0
    /\ \E r \in DOMAIN s3[raw_path].rows : r["passenger_count"] = Num(7)
    /\ \E r \in DOMAIN s3[raw_path].rows : r["trip_distance"] = Num(0)

-----------------------------------------------------------------------------
(* scripts/step7/2_run_job.py: submitting one job to EMR Serverless        *)
(*                                                                         *)
(* pc is the position in main(); result holds the arguments, the state of  *)
(* the application as last returned by get_application, the loop counter   *)
(* wait_count, the number of get_application calls, and the state of the   *)
(* job run in EMR (none before start_job_run succeeded).                   *)

JobScripts ==
    <<"create_lookup_tables.py", "data_validation_cleaning.py",
      "trip_metrics_aggregation.py", "geospatial_analysis.py",
      "revenue_insights.py">>

\* states get_application can return
AppStates == {"CREATED", "STARTING", "STARTED", "STOPPED"}

\* states of a job run that is not over, and of one that is
RunningStates == {"PENDING", "SCHEDULED", "RUNNING"}
FinalStates == {"SUCCESS", "FAILED", "CANCELLED"}

\* how a job run moves on in EMR
RunSuccessors(state) ==
    CASE state = "PENDING" -> {"SCHEDULED", "CANCELLED"}
      [] state = "SCHEDULED" -> {"RUNNING", "CANCELLED"}
      [] state = "RUNNING" -> {"SUCCESS", "FAILED", "CANCELLED"}
      [] OTHER -> {}

max_wait == 20

RjInit ==
    /\ pc = "load_and_set_config"
    /\ df = NoFrame
    /\ s3 = EmptyStore
    /\ exit_code = -1
    /\ trace = <<>>
    /\ \E job \in SeqToSet(JobScripts), wait \in BOOLEAN :
          result = [job_script |-> job, wait |-> wait, app_state |-> "unknown",
                    wait_count |-> 0, get_application |-> 0, job_run |-> "none"]

\* sys.exit(code) with the locals as they are then
RjExit(code, locals) ==
    /\ pc' = "exit"
    /\ exit_code' = code
    /\ result' = locals
    /\ UNCHANGED <<df, s3, trace>>

RjGoto(to, locals) ==
    /\ pc' = to
    /\ result' = locals
    /\ UNCHANGED <<df, s3, exit_code, trace>>

\* lines 57-78: configuration, application id, role and bucket
RjLoadConfig ==
    /\ pc = "load_and_set_config"
    /\ \E outcome \in {"ok", "exception", "missing"} :
          IF outcome = "ok" THEN RjGoto("get_application", result)
          ELSE RjExit(1, result)

\* get_application returned state
Observed(state) ==
    [result EXCEPT !.app_state = state, !.get_application = @ + 1]

\* lines 100-106 and 129-134: the first look at the application
RjGetApplication ==
    /\ pc = "get_application"
    /\ \/ RjExit(1, result)                       \* the call raised
       \/ \E state \in AppStates :
             IF state # "STARTED"
             THEN RjGoto("start_application", Observed(state))
             ELSE RjGoto("start_job_run", Observed(state))

\* lines 107-112
RjStartApplication ==
    /\ pc = "start_application"
    /\ \/ RjExit(1, result)                       \* the call raised
       \/ /\ pc' = "while"
          /\ result' = [result EXCEPT !.wait_count = 0]
          /\ trace' = Append(trace, "start_application")
          /\ UNCHANGED <<df, s3, exit_code>>

\* mutant: the loop has no timeout exit, and ends when its condition fails
RjPoll_NoTimeout ==
    /\ pc = "while"
    /\ IF result.wait_count < max_wait
       THEN \/ RjExit(1, result)
            \/ \E state \in AppStates :
                  LET locals == [Observed(state) EXCEPT !.wait_count = @ + 1]
                  IN  IF state = "STARTED" THEN RjGoto("start_job_run", locals)
                      ELSE RjGoto("while", locals)
       ELSE RjGoto("start_job_run", result)

\* lines 114-128: one evaluation of the loop condition and one pass of the body
RjPoll ==
    /\ pc = "while"
    /\ IF result.wait_count < max_wait
       THEN \/ RjExit(1, result)                  \* get_application raised
            \/ \E state \in AppStates :
                  LET locals == [Observed(state) EXCEPT !.wait_count = @ + 1]
                  IN  IF state = "STARTED" THEN RjGoto("start_job_run", locals)
                      ELSE IF locals.wait_count >= max_wait THEN RjExit(1, locals)
                      ELSE RjGoto("while", locals)
       ELSE RjGoto("start_job_run", result)

\* lines 167-184 and 217-219: without --wait main returns after the submission
RjStartJobRun ==
    /\ pc = "start_job_run"
    /\ \/ RjExit(1, result)                       \* the call raised
       \/ /\ result' = [result EXCEPT !.job_run = "PENDING"]
          /\ trace' = Append(trace, "start_job_run")
          /\ IF result.wait
             THEN pc' = "get_job_run" /\ UNCHANGED exit_code
             ELSE pc' = "exit" /\ exit_code' = 0
          /\ UNCHANGED <<df, s3>>

\* lines 192-216: one pass of the waiting loop
RjGetJobRun ==
    /\ pc = "get_job_run"
    /\ \/ RjExit(1, result)                       \* get_job_run raised
       \/ RjExit(0, result)                       \* KeyboardInterrupt
       \/ /\ result.job_run = "SUCCESS"
          /\ RjExit(0, result)
       \/ /\ result.job_run \in {"FAILED", "CANCELLED"}
          /\ RjExit(1, result)

\* EMR moves the job run on, whether or not the script is still there
EmrRunProgress ==
    /\ result.job_run # "none"
    /\ \E state \in RunSuccessors(result.job_run) :
          result' = [result EXCEPT !.job_run = state]
    /\ UNCHANGED <<pc, df, s3, exit_code, trace>>

RjNext ==
    \/ RjLoadConfig
    \/ RjGetApplication
    \/ RjStartApplication
    \/ RjPoll
    \/ RjStartJobRun
    \/ RjGetJobRun
    \/ EmrRunProgress

SpecRunJob == RjInit /\ [][RjNext]_vars

-----------------------------------------------------------------------------
(* Properties of 2_run_job                                                 *)

JobRunSubmitted == "start_job_run" \in SeqToSet(trace)
TimedOut == result.wait_count = max_wait /\ result.app_state # "STARTED"

\* C27: start_job_run is called only after get_application returned STARTED;
\* when the first look does not find the application started, the loop polls
\* at most 20 times and, when none of these polls returns STARTED, the script
\* exits with status 1 and has submitted no job run
C27_SubmitOnlyWhenStarted ==
    /\ (pc = "start_job_run" \/ JobRunSubmitted) => result.app_state = "STARTED"
    /\ result.job_run # "none" => JobRunSubmitted
    /\ result.wait_count <= max_wait
    /\ result.get_application <= max_wait + 1
    /\ TimedOut =>
          /\ pc = "exit" /\ exit_code = 1
          /\ ~JobRunSubmitted /\ result.job_run = "none"

\* the twentieth poll did not return STARTED either
C27_Witness ==
    /\ TimedOut
    /\ result.get_application = max_wait + 1
    /\ "start_application" \in SeqToSet(trace)
    /\ exit_code = 1

-----------------------------------------------------------------------------
(* scripts/step7/3_run_all_jobs.py: the jobs run one after another or in   *)
(* phases, each by a child process running 2_run_job.py                    *)
(*                                                                         *)
(* pc is the position in main(); result holds the arguments, the index of  *)
(* the sequential loop, each child process (its position in 2_run_job and  *)
(* whether it got --wait), the state of each job run in EMR, the status    *)
(* submit_job returned, and whether a waiting child was interrupted.       *)

jobs_phase1 == {JobScripts[1]}
jobs_phase2 == {JobScripts[2]}
jobs_phase3 == {JobScripts[3], JobScripts[4], JobScripts[5]}

cleaning_job == JobScripts[2]

NoChild == [pc |-> "none", wait |-> FALSE]

RaInit ==
    /\ pc = "upload"
    /\ df = NoFrame
    /\ s3 = EmptyStore
    /\ exit_code = -1
    /\ trace = <<>>
    /\ \E skip_upload \in BOOLEAN, wait \in BOOLEAN, sequential \in BOOLEAN :
          result = [args |-> [skip_upload |-> skip_upload, wait |-> wait,
                              sequential |-> sequential],
                    idx |-> 1,
                    child |-> [j \in SeqToSet(JobScripts) |-> NoChild],
                    runs |-> [j \in SeqToSet(JobScripts) |-> "none"],
                    status |-> [j \in SeqToSet(JobScripts) |-> "none"],
                    interrupted |-> FALSE]

RaGoto(to, locals) ==
    /\ pc' = to
    /\ result' = locals
    /\ UNCHANGED <<df, s3, exit_code, trace>>

RaExit(code, locals) ==
    /\ pc' = "exit"
    /\ exit_code' = code
    /\ result' = locals
    /\ UNCHANGED <<df, s3, trace>>

\* subprocess.run([.., "2_run_job.py", job] + wait_flag) has started the child
Spawned(job, wait) ==
    [result EXCEPT !.child[job] = [pc |-> "main", wait |-> wait]]

Exited(job) == result.child[job].pc \in {"exit 0", "exit 1"}

\* what submit_job returns for a child that has exited (lines 61-63)
StatusOf(job) ==
    IF result.child[job].pc = "exit 0" THEN "submitted" ELSE "failed"

\* lines 81-110
RaUpload ==
    /\ pc = "upload"
    /\ LET to == IF result.args.sequential THEN "sequential" ELSE "phase1"
       IN  IF result.args.skip_upload THEN RaGoto(to, result)
           ELSE \/ RaGoto(to, result)
                \/ RaExit(1, result)              \* 1_upload_jobs.py failed

\* lines 154-166 and 172-175: the loop starts the child of the next job
RaSequentialRun ==
    /\ pc = "sequential"
    /\ result.child[JobScripts[result.idx]].pc = "none"
    /\ \/ RaGoto("sequential", Spawned(JobScripts[result.idx], result.args.wait))
       \/ RaExit(1, result)                       \* subprocess.run raised

\* lines 167-171 and 177-180: the child is over; check=True raises on a
\* status other than 0; after the last job main returns
RaSequentialDone ==
    /\ pc = "sequential"
    /\ Exited(JobScripts[result.idx])
    /\ LET job == JobScripts[result.idx]
           locals == [result EXCEPT !.status[job] = StatusOf(job)]
       IN  IF StatusOf(job) = "failed" THEN RaExit(1, locals)
           ELSE IF result.idx = Len(JobScripts) THEN RaExit(0, locals)
           ELSE RaGoto("sequential", [locals EXCEPT !.idx = @ + 1])

\* lines 190-193: submit_job(job, script_dir, wait=args.wait)
RaPhase1Run ==
    /\ pc = "phase1"
    /\ \E job \in jobs_phase1 :
          /\ result.child[job].pc = "none"
          /\ \/ RaGoto("phase1", Spawned(job, result.args.wait))
             \/ RaGoto("phase2", [result EXCEPT !.status[job] = "error"])

\* lines 194-203: whatever the status, main goes on
RaPhase1Done ==
    /\ pc = "phase1"
    /\ \E job \in jobs_phase1 :
          /\ Exited(job)
          /\ RaGoto("phase2", [result EXCEPT !.status[job] = StatusOf(job)])

\* lines 214-217: submit_job(job, script_dir, wait=True)
RaPhase2Run ==
    /\ pc = "phase2"
    /\ \E job \in jobs_phase2 :
          /\ result.child[job].pc = "none"
          /\ \/ RaGoto("phase2", Spawned(job, TRUE))
             \/ RaExit(1, [result EXCEPT !.status[job] = "error"])

\* lines 218-228
RaPhase2Done ==
    /\ pc = "phase2"
    /\ \E job \in jobs_phase2 :
          /\ Exited(job)
          /\ LET locals == [result EXCEPT !.status[job] = StatusOf(job)]
             IN  IF StatusOf(job) = "submitted" THEN RaGoto("phase3", locals)
                 ELSE RaExit(1, locals)

\* lines 239-248: one thread per insight job, each in submit_job
RaPhase3Run ==
    /\ pc = "phase3"
    /\ \A job \in jobs_phase3 : result.child[job].pc = "none"
    /\ \E failing \in SUBSET jobs_phase3 :
          RaGoto("phase3",
                 [result EXCEPT
                    !.child = [j \in DOMAIN @ |->
                                 IF j \in jobs_phase3 \ failing
                                 THEN [pc |-> "main", wait |-> result.args.wait]
                                 ELSE @[j]],
                    !.status = [j \in DOMAIN @ |->
                                 IF j \in failing THEN "error" ELSE @[j]]])

\* lines 250-292: every thread is over; main returns after the summary
RaPhase3Done ==
    /\ pc = "phase3"
    /\ \A job \in jobs_phase3 : Exited(job) \/ result.status[job] = "error"
    /\ RaExit(0, [result EXCEPT
                    !.status = [j \in DOMAIN @ |->
                                  IF j \in jobs_phase3 /\ Exited(j)
                                  THEN StatusOf(j) ELSE @[j]]])

ChildAt(job, at) == result.child[job].pc = at
ChildGoto(job, to) == [result EXCEPT !.child[job].pc = to]

ChildStep(locals) ==
    /\ result' = locals
    /\ UNCHANGED <<pc, df, s3, exit_code, trace>>

\* 2_run_job.py lines 57-134 in one step: the child comes to start_job_run,
\* or exits with status 1 (configuration, an exception, or the timeout)
RaChildMain ==
    \E job \in SeqToSet(JobScripts) :
        /\ ChildAt(job, "main")
        /\ \/ ChildStep(ChildGoto(job, "start_job_run"))
           \/ ChildStep(ChildGoto(job, "exit 1"))

\* 2_run_job.py lines 167-184 and 217-219
RaChildStartJobRun ==
    \E job \in SeqToSet(JobScripts) :
        /\ ChildAt(job, "start_job_run")
        /\ \/ ChildStep(ChildGoto(job, "exit 1"))
           \/ ChildStep([ChildGoto(job, IF result.child[job].wait
                                         THEN "get_job_run" ELSE "exit 0")
                            EXCEPT !.runs[job] = "PENDING"])

\* 2_run_job.py lines 192-216
RaChildGetJobRun ==
    \E job \in SeqToSet(JobScripts) :
        /\ ChildAt(job, "get_job_run")
        /\ \/ ChildStep(ChildGoto(job, "exit 1"))            \* get_job_run raised
           \/ ChildStep([ChildGoto(job, "exit 0")            \* KeyboardInterrupt
                            EXCEPT !.interrupted = TRUE])
           \/ /\ result.runs[job] = "SUCCESS"
              /\ ChildStep(ChildGoto(job, "exit 0"))
           \/ /\ result.runs[job] \in {"FAILED", "CANCELLED"}
              /\ ChildStep(ChildGoto(job, "exit 1"))

\* EMR ends a job run; the wait loop reads the states before the end alike
\* (2_run_job.py lines 199-209)
RaEmrRunEnds ==
    \E job \in SeqToSet(JobScripts) :
        /\ result.runs[job] \in RunningStates
        /\ \E state \in FinalStates :
              ChildStep([result EXCEPT !.runs[job] = state])

RaNext ==
    \/ RaUpload
    \/ RaSequentialRun
    \/ RaSequentialDone
    \/ RaPhase1Run
    \/ RaPhase1Done
    \/ RaPhase2Run
    \/ RaPhase2Done
    \/ RaPhase3Run
    \/ RaPhase3Done
    \/ RaChildMain
    \/ RaChildStartJobRun
    \/ RaChildGetJobRun
    \/ RaEmrRunEnds

SpecRunAll == RaInit /\ [][RaNext]_vars

-----------------------------------------------------------------------------
(* Properties of 3_run_all_jobs                                            *)

InsightSubmitted == \E job \in jobs_phase3 : result.runs[job] # "none"
CleaningSucceeded == result.runs[cleaning_job] = "SUCCESS"
CleaningFailed == result.runs[cleaning_job] \in {"FAILED", "CANCELLED"}

\* C26 as stated: in every execution, sequential or phased, with or without
\* --wait, an insight job is submitted only once the cleaning run has ended
\* with SUCCESS; when the cleaning run fails no insight job is submitted and
\* the script ends with a status other than 0
C26_AsClaimed ==
    /\ InsightSubmitted => CleaningSucceeded
    /\ CleaningFailed =>
          /\ ~InsightSubmitted
          /\ pc = "exit" => exit_code # 0

\* the same where the cleaning child waits for its run (phased, or sequential
\* with --wait) and no waiting child is interrupted
CleaningFirstWhenWaited ==
    ((~result.args.sequential \/ result.args.wait) /\ ~result.interrupted) =>
        C26_AsClaimed

====
